---- MODULE Spec2Model ----
(***************************************************************************)
(* salesByExpansion.js: the interactive game -> expansion -> results TUI.  *)
(* The model covers the escape-sequence decoder of the stdin 'data'        *)
(* callback, its 50 ms timers, the handleInput state machine, the list     *)
(* renderers (which clamp cursor and scrollOffset) and the suspension of   *)
(* renderResults on fetchAllOrders.                                        *)
(*                                                                         *)
(* A JavaScript string is a sequence of one-character strings; a key       *)
(* passed to handleInput is such a sequence (one byte, or the three bytes  *)
(* of an escape sequence).  A macrotask (one 'data' callback, one timer    *)
(* callback, one resolved fetch) is one action: `await` of a call that     *)
(* does no I/O resumes in a microtask, before any other macrotask.  A      *)
(* 'data' chunk of several bytes runs the loop body once per byte, so it   *)
(* behaves as its bytes delivered in succession.                           *)
(***************************************************************************)
EXTENDS Integers, Sequences, FiniteSets, TLC

\* ---- bounds of the model ------------------------------------------------
MaxFilterLen == 1      \* longest filterText typed
MaxTimers    == 2      \* setTimeout callbacks pending at once
MaxPending   == 2      \* renderResults calls suspended on fetchAllOrders at once
MaxRows      == 2      \* largest viewport height (process.stdout.rows - 6)

\* ---- bytes and keys -----------------------------------------------------
ESC == "ESC"           \* '\x1b'
CR  == "CR"            \* '\r'
DEL == "DEL"           \* '\x7f'
BS  == "BS"            \* '\b'
TAB == "TAB"           \* '\t'

Bytes == {ESC, "[", "A", "B", CR, " ", "q", "/", "j", "k", DEL}

\* key >= ' ' for a one-character key: every byte here except ESC, CR, BS
\* and TAB
BelowSpace == {ESC, CR, BS, TAB}

ArrowUp   == <<ESC, "[", "A">>
ArrowDown == <<ESC, "[", "B">>
ArrowRight == <<ESC, "[", "C">>   \* a sequence handleInput does not know

\* ---- reference data (loaded before the UI starts) -----------------------
NoGame == 0            \* selectedGameId = null

Games ==
  << [id |-> 1, name |-> <<"A", "j">>],
     [id |-> 2, name |-> <<"b", "A">>],
     [id |-> 3, name |-> <<"k">>] >>

Expansions ==
  << [id |-> 10, game_id |-> 1, name |-> <<"A", "k">>],
     [id |-> 20, game_id |-> 2, name |-> <<"A", "k">>],
     [id |-> 11, game_id |-> 1, name |-> <<"a", "B">>],
     [id |-> 12, game_id |-> 1, name |-> <<"j", "q">>],
     [id |-> 21, game_id |-> 2, name |-> <<"a", "k">>] >>

ExpansionIds == {Expansions[i].id : i \in 1..Len(Expansions)}

VARIABLES
  state,              \* 'game-select' | 'expansion-select' | 'results'
  selectedGameId,
  cursor,
  scrollOffset,
  filterMode,
  filterText,
  markedExpansions,
  escapeBuffer,       \* bytes of an escape sequence being collected
  timers,             \* number of pending setTimeout callbacks (they fire in order)
  pendingResults,     \* renderResults calls waiting in `await fetchAllOrders()`
  exited,             \* the process has ended
  termRows,           \* getVisibleRows(): process.stdout.rows - 6
  win,                \* history: bytes and key events since the last ESC that started a timer
  cursorHidden,       \* hideCursor() was written last, not showCursor()
  rawMode,            \* the mode last set with process.stdin.setRawMode
  orders,             \* the transaction log fetchAllOrders returns
  results,            \* what renderResults computed and painted last
  boot,               \* the script before the main loop: phase, lists obtained, exit status
  cache,              \* the orders cache file, its age, and the processes that read it
  pager,              \* one paginated fetch loop against a server
  renders,            \* history: the renderResults calls suspended, and the last paint
  priceFilter,        \* one run of script.js
  bulk,               \* the bulk listing page: workingItems and its selection
  dateScan            \* one run of the orders loop of cardsSoldOfSet.js

uiVars == <<state, selectedGameId, cursor, scrollOffset, filterMode, filterText, markedExpansions>>
vars == <<state, selectedGameId, cursor, scrollOffset, filterMode, filterText,
          markedExpansions, escapeBuffer, timers, pendingResults,
          exited, termRows, win, cursorHidden, rawMode, orders, results, boot, cache, pager, renders,
          priceFilter, bulk, dateScan>>
aggVars == <<orders, results>>
scriptVars == <<priceFilter, bulk, dateScan>>
envVars == <<boot, cache, pager, renders, scriptVars>>

\* ---- string helpers -----------------------------------------------------
Max(a, b) == IF a >= b THEN a ELSE b
Min(a, b) == IF a <= b THEN a ELSE b

toLowerCaseChar(c) ==
  CASE c = "A" -> "a"
    [] c = "B" -> "b"
    [] OTHER   -> c

toLowerCase(s) == [i \in 1..Len(s) |-> toLowerCaseChar(s[i])]

\* String.prototype.includes
includes(s, t) ==
  \E i \in 0..(Len(s) - Len(t)) : SubSeq(s, i + 1, i + Len(t)) = t

\* String.prototype.slice(0, -1)
sliceDropLast(s) == IF Len(s) = 0 THEN s ELSE SubSeq(s, 1, Len(s) - 1)

\* nameMatches without the two toLowerCase() calls
nameMatchesCaseSensitive(e, text) == includes(e.name, text)

nameMatches(e, text) == includes(toLowerCase(e.name), toLowerCase(text))

\* ---- the UI state as one value ------------------------------------------
UI ==
  [state |-> state, selectedGameId |-> selectedGameId, cursor |-> cursor,
   scrollOffset |-> scrollOffset, filterMode |-> filterMode,
   filterText |-> filterText, markedExpansions |-> markedExpansions]

getVisibleRows == termRows

gameExpansionsOf(u) == SelectSeq(Expansions, LAMBDA e : e.game_id = u.selectedGameId)
filteredGamesOf(u)  == SelectSeq(Games, LAMBDA g : nameMatches(g, u.filterText))
filteredExpsOf(u)   == SelectSeq(gameExpansionsOf(u), LAMBDA e : nameMatches(e, u.filterText))

\* ---- render -------------------------------------------------------------
\* the three adjustments made before the rows of a non-empty list are painted
clampView(u, n) ==
  LET c  == IF u.cursor >= n THEN Max(0, n - 1) ELSE u.cursor
      s1 == IF c < u.scrollOffset THEN c ELSE u.scrollOffset
      s2 == IF c >= s1 + getVisibleRows THEN c - getVisibleRows + 1 ELSE s1
  IN  [u EXCEPT !.cursor = c, !.scrollOffset = s2]

renderGameSelect(u) ==
  LET filtered == filteredGamesOf(u)
  IN  IF Len(filtered) = 0 THEN u ELSE clampView(u, Len(filtered))

renderExpansionSelect(u) ==
  LET filtered == filteredExpsOf(u)
  IN  IF Len(filtered) = 0 THEN u ELSE clampView(u, Len(filtered))

render(u) ==
  IF u.state = "game-select" THEN renderGameSelect(u)
  ELSE IF u.state = "expansion-select" THEN renderExpansionSelect(u)
  ELSE u

\* ---- handleInput --------------------------------------------------------
\* The result of one call: the new UI state and what the call went on to do
\* ("exit": process.exit(0); "renderResults": await renderResults()).
Returns(u)      == [ui |-> u, call |-> "none"]
Exits(u)        == [ui |-> u, call |-> "exit"]
AwaitsResults(u) == [ui |-> u, call |-> "renderResults"]

\* resultsKey without the 'q' test
resultsKeyNoQuit(u, key) ==
  [ui |-> render([u EXCEPT !.state = "expansion-select"]), call |-> "none"]

\* resultsKey with Escape treated as "back one more screen"
resultsKeyEscapeToGames(u, key) ==
  IF key = <<"q">> THEN [ui |-> u, call |-> "exit"]
  ELSE IF key = <<ESC>>
  THEN [ui |-> render([u EXCEPT !.state = "game-select"]), call |-> "none"]
  ELSE [ui |-> render([u EXCEPT !.state = "expansion-select"]), call |-> "none"]

\* state === 'results'
resultsKey(u, key) ==
  IF key = <<"q">> THEN Exits(u)
  ELSE Returns(render([u EXCEPT !.state = "expansion-select"]))

\* filterExit with the filter text dropped
filterExitClearsText(u) ==
  Returns(render([u EXCEPT !.filterMode = FALSE, !.filterText = <<>>]))

filterExit(u) == Returns(render([u EXCEPT !.filterMode = FALSE]))

filterBackspace(u) ==
  Returns(render([u EXCEPT !.filterText = sliceDropLast(@), !.cursor = 0, !.scrollOffset = 0]))

\* filterAppend without cursor = 0; scrollOffset = 0
filterAppendKeepsCursor(u, key) ==
  Returns(render([u EXCEPT !.filterText = @ \o key]))

filterAppend(u, key) ==
  Returns(render([u EXCEPT !.filterText = @ \o key, !.cursor = 0, !.scrollOffset = 0]))

\* if (filterMode) { ... }
filterModeKey(u, key) ==
  IF key = <<ESC>> \/ key = <<CR>> THEN filterExit(u)
  ELSE IF key = <<DEL>> \/ key = <<BS>> THEN filterBackspace(u)
  ELSE IF Len(key) = 1 /\ key[1] \notin BelowSpace THEN filterAppend(u, key)
  ELSE Returns(u)

\* filterStart without filterText = ''
filterStartKeepsText(u) == Returns(render([u EXCEPT !.filterMode = TRUE]))

filterStart(u) == Returns(render([u EXCEPT !.filterMode = TRUE, !.filterText = <<>>]))

cursorUp(u) == Returns(render([u EXCEPT !.cursor = Max(0, @ - 1)]))

\* cursorDown going from the last row to the first
cursorDownWraps(u) ==
  LET maxIdx == IF u.state = "game-select" THEN Len(filteredGamesOf(u)) - 1
                ELSE Len(filteredExpsOf(u)) - 1
  IN  Returns(render([u EXCEPT !.cursor = IF @ + 1 > maxIdx THEN 0 ELSE @ + 1]))

cursorDown(u) ==
  LET maxIdx == IF u.state = "game-select" THEN Len(filteredGamesOf(u)) - 1
                ELSE Len(filteredExpsOf(u)) - 1
  IN  Returns(render([u EXCEPT !.cursor = Min(maxIdx, @ + 1)]))

\* escapeBack without markedExpansions.clear()
escapeBackKeepsMarks(u) ==
  Returns(render([u EXCEPT !.state = "game-select", !.cursor = 0, !.scrollOffset = 0,
                           !.filterText = <<>>]))

\* escapeBack without filterText = ''
escapeBackKeepsFilter(u) ==
  Returns(render([u EXCEPT !.state = "game-select", !.cursor = 0, !.scrollOffset = 0,
                           !.markedExpansions = {}]))

escapeBack(u) ==
  Returns(render([u EXCEPT !.state = "game-select", !.cursor = 0, !.scrollOffset = 0,
                           !.filterText = <<>>, !.markedExpansions = {}]))

\* toggleMark that only ever adds
toggleMarkAddOnly(u) ==
  LET filteredExps == filteredExpsOf(u)
      i  == u.cursor + 1
      m  == IF i \in 1..Len(filteredExps)
            THEN u.markedExpansions \cup {filteredExps[i].id}
            ELSE u.markedExpansions
  IN  Returns(render([u EXCEPT !.markedExpansions = m]))

\* toggleMark indexing the filtered expansions of every game
toggleMarkAnyGame(u) ==
  LET filteredExps == SelectSeq(Expansions, LAMBDA e : nameMatches(e, u.filterText))
      i  == u.cursor + 1
      m  == IF i \in 1..Len(filteredExps)
            THEN (IF filteredExps[i].id \in u.markedExpansions
                  THEN u.markedExpansions \ {filteredExps[i].id}
                  ELSE u.markedExpansions \cup {filteredExps[i].id})
            ELSE u.markedExpansions
  IN  Returns(render([u EXCEPT !.markedExpansions = m]))

\* filteredExps[cursor] is undefined outside 0..length-1
toggleMark(u) ==
  LET filteredExps == filteredExpsOf(u)
      i  == u.cursor + 1
      m  == IF i \in 1..Len(filteredExps)
            THEN (IF filteredExps[i].id \in u.markedExpansions
                  THEN u.markedExpansions \ {filteredExps[i].id}
                  ELSE u.markedExpansions \cup {filteredExps[i].id})
            ELSE u.markedExpansions
  IN  Returns(render([u EXCEPT !.markedExpansions = m]))

enterGame(u) ==
  LET filteredGames == filteredGamesOf(u)
      i == u.cursor + 1
  IN  IF i \in 1..Len(filteredGames)
      THEN Returns(render([u EXCEPT !.selectedGameId = filteredGames[i].id,
                                    !.state = "expansion-select", !.cursor = 0,
                                    !.scrollOffset = 0, !.filterText = <<>>]))
      ELSE Returns(u)

\* enterExpansion without the markedExpansions.size > 0 test
enterExpansionAlways(u) ==
  IF u.state = "expansion-select"
  THEN AwaitsResults([u EXCEPT !.state = "results"])
  ELSE Returns(u)

enterExpansion(u) ==
  IF u.state = "expansion-select" /\ Cardinality(u.markedExpansions) > 0
  THEN AwaitsResults([u EXCEPT !.state = "results"])
  ELSE Returns(u)

normalKey(u, key) ==
  IF key = <<"q">> THEN Exits(u)
  ELSE IF key = <<"/">> THEN filterStart(u)
  ELSE IF key = ArrowUp \/ key = <<"k">> THEN cursorUp(u)
  ELSE IF key = ArrowDown \/ key = <<"j">> THEN cursorDown(u)
  ELSE IF key = <<ESC>> /\ u.state = "expansion-select" THEN escapeBack(u)
  ELSE IF key = <<" ">> /\ u.state = "expansion-select" THEN toggleMark(u)
  ELSE IF key = <<CR>>
       THEN (IF u.state = "game-select" THEN enterGame(u) ELSE enterExpansion(u))
  ELSE Returns(u)

\* handleInput with the test for 'q' ahead of the test for filter mode
handleInputQuitFirst(u, key) ==
  IF u.state = "results" THEN resultsKey(u, key)
  ELSE IF key = <<"q">> THEN Exits(u)
  ELSE IF u.filterMode THEN filterModeKey(u, key)
  ELSE normalKey(u, key)

handleInput(u, key) ==
  IF u.state = "results" THEN resultsKey(u, key)
  ELSE IF u.filterMode THEN filterModeKey(u, key)
  ELSE normalKey(u, key)

\* ---- the process as one value ------------------------------------------
\* win is history, not program state: win.bytes are the bytes delivered since
\* (and with) the most recent ESC byte that started a timer, kept while they
\* are a prefix of ESC [ A; win.open: that timer has not fired; win.events: the
\* keys handed to handleInput since that ESC byte, up to the firing of its timer.
NoWin == [open |-> FALSE, bytes |-> <<>>, events |-> <<>>]

M ==
  [ui |-> UI, escapeBuffer |-> escapeBuffer, timers |-> timers,
   pendingResults |-> pendingResults, exited |-> exited, win |-> win]

logEvent(w, key) == IF w.open THEN [w EXCEPT !.events = Append(@, key)] ELSE w

\* await handleInput(key) from a callback: the UI state it leaves, exit, and
\* renderResults.  readJsonIfFresh decides from the file system, which other
\* processes and the clock change, whether fetchAllOrders returns at once
\* (fresh: orders_all.json parseable and younger than its TTL) or
\* renderResults is left waiting for the fetch.
dispatch(m, key, fresh) ==
  LET r == handleInput(m.ui, key) IN
  [m EXCEPT !.ui = r.ui,
            !.exited = (r.call = "exit"),
            !.pendingResults = IF r.call = "renderResults" /\ ~fresh THEN @ + 1 ELSE @,
            !.win = logEvent(@, key)]

\* the body of `for (const char of data)` for one char
onChar(m, char, fresh) ==
  IF m.exited THEN m
  ELSE IF Len(m.escapeBuffer) > 0
  THEN LET buf == Append(m.escapeBuffer, char) IN
       IF Len(buf) = 3 /\ SubSeq(buf, 1, 2) = <<ESC, "[">>
       THEN [dispatch(m, buf, fresh) EXCEPT !.escapeBuffer = <<>>]
       ELSE [m EXCEPT !.escapeBuffer = IF Len(buf) >= 3 THEN <<>> ELSE buf]
  ELSE IF char = ESC
  THEN [m EXCEPT !.escapeBuffer = <<ESC>>, !.timers = @ + 1]
  ELSE dispatch(m, <<char>>, fresh)

isPrefixOfArrowUp(s) == Len(s) <= 3 /\ s = SubSeq(ArrowUp, 1, Len(s))

\* the history after a byte: a new window when the byte started a timer
trackByte(before, after, char) ==
  IF after.timers > before.timers
  THEN [after EXCEPT !.win = [open |-> TRUE, bytes |-> <<ESC>>, events |-> <<>>]]
  ELSE IF before.win.open /\ Len(before.win.bytes) < 3
          /\ isPrefixOfArrowUp(Append(before.win.bytes, char))
  THEN [after EXCEPT !.win.bytes = Append(@, char)]
  ELSE [after EXCEPT !.win = NoWin]

RECURSIVE onData(_, _, _)
\* process.stdin.on('data', ...): the chars of the chunk in order
onData(m, data, fresh) ==
  IF data = <<>> THEN m
  ELSE onData(trackByte(m, onChar(m, Head(data), fresh), Head(data)), Tail(data), fresh)

\* the callback without escapeBuffer = ''
onTimeoutKeepsBuffer(m) ==
  IF m.escapeBuffer = <<ESC>>
  THEN dispatch(m, <<ESC>>, TRUE)
  ELSE m

\* the setTimeout callback
onTimeout(m) ==
  IF m.escapeBuffer = <<ESC>>
  THEN [dispatch(m, <<ESC>>, TRUE) EXCEPT !.escapeBuffer = <<>>]
  ELSE m

\* the history after a timer fired; timers fire in the order they were set,
\* so the timer of the window's ESC byte is the last one pending
trackTimeout(before, after) ==
  IF ~before.win.open THEN [after EXCEPT !.win = NoWin]
  ELSE IF before.timers > 1 THEN after
  ELSE IF before.win.bytes = <<ESC>> THEN [after EXCEPT !.win.open = FALSE]
  ELSE [after EXCEPT !.win = NoWin]

\* ---- renderResults: the aggregation ------------------------------------
\* JavaScript values of the fields of a line item: a number, undefined, a
\* string that is not a number, NaN
Num(n) == [t |-> "number", v |-> n]
Undefined == [t |-> "undefined", v |-> 0]
Str == [t |-> "string", v |-> 0]
NaN == [t |-> "NaN", v |-> 0]
isNumber(x) == x.t = "number"
nullish(x) == x.t = "undefined"

\* a * b
jsMul(a, b) == IF isNumber(a) /\ isNumber(b) THEN Num(a.v * b.v) ELSE NaN

\* a + b: concatenation when an operand is a string
jsAdd(a, b) ==
  IF a.t = "string" \/ b.t = "string" THEN Str
  ELSE IF isNumber(a) /\ isNumber(b) THEN Num(a.v + b.v)
  ELSE NaN

\* a value of order.order_items / order.items
Array(a) == [t |-> "array", a |-> a]
NoArray == [t |-> "undefined", a |-> <<>>]
NotAnArray == [t |-> "string", a |-> <<>>]

\* order.order_items || order.items || []
itemsOf(order) ==
  IF order.order_items.t # "undefined" THEN order.order_items
  ELSE IF order.items.t # "undefined" THEN order.items
  ELSE Array(<<>>)

\* item.quantity ?? 1
quantityOf(item) == IF nullish(item.quantity) THEN Num(1) ELSE item.quantity

\* item.seller_price?.cents ?? item.price_cents
\*   ?? (typeof item.price === 'number' ? Math.round(item.price * 100) : 0)
priceCentsOf(item) ==
  IF ~nullish(item.seller_price_cents) THEN item.seller_price_cents
  ELSE IF ~nullish(item.price_cents) THEN item.price_cents
  ELSE IF isNumber(item.price) THEN Num(item.price.v * 100)
  ELSE Num(0)

\* item.name || item.blueprint?.name || 'Unknown'
nameOf(item) ==
  IF item.name # "" THEN item.name
  ELSE IF item.blueprint_name # "" THEN item.blueprint_name
  ELSE "Unknown"

\* itemExpName === expName with a substring test in its place
itemMatchesSubstring(item, expName) == includes(expName, toLowerCase(item.expansion))

\* (item.expansion || '').toLowerCase() === expName
itemMatches(item, expName) == toLowerCase(item.expansion) = expName

\* cardBreakdown.set(name, {qty, cents}): the entry replaced, not added to
cardBreakdownSetReplaces(bd, name, qty, cents) ==
  IF \E i \in 1..Len(bd) : bd[i].name = name
  THEN [i \in 1..Len(bd) |->
          IF bd[i].name = name
          THEN [name |-> name, qty |-> jsAdd(Num(0), qty), cents |-> jsAdd(Num(0), cents)]
          ELSE bd[i]]
  ELSE Append(bd, [name |-> name, qty |-> jsAdd(Num(0), qty),
                   cents |-> jsAdd(Num(0), cents)])

\* cardBreakdown.set(name, {qty: prev.qty + qty, cents: prev.cents + cents}):
\* a Map keeps a key at the place of its first insertion
cardBreakdownSet(bd, name, qty, cents) ==
  IF \E i \in 1..Len(bd) : bd[i].name = name
  THEN [i \in 1..Len(bd) |->
          IF bd[i].name = name
          THEN [name |-> name, qty |-> jsAdd(bd[i].qty, qty),
                cents |-> jsAdd(bd[i].cents, cents)]
          ELSE bd[i]]
  ELSE Append(bd, [name |-> name, qty |-> jsAdd(Num(0), qty),
                   cents |-> jsAdd(Num(0), cents)])

\* the body of `for (const item of items)`
scanItem(acc, expName, item) ==
  IF itemMatches(item, expName)
  THEN LET qty == quantityOf(item)
           cents == jsMul(priceCentsOf(item), qty)
       IN [totalCents |-> jsAdd(acc.totalCents, cents),
           totalQty |-> jsAdd(acc.totalQty, qty),
           cardBreakdown |-> cardBreakdownSet(acc.cardBreakdown, nameOf(item), qty, cents)]
  ELSE acc

RECURSIVE scanItems(_, _, _)
scanItems(acc, expName, items) ==
  IF items = <<>> THEN acc
  ELSE scanItems(scanItem(acc, expName, Head(items)), expName, Tail(items))

RECURSIVE scanOrders(_, _, _)
\* for (const order of orders): orders whose items are not an array are skipped
scanOrders(acc, expName, os) ==
  IF os = <<>> THEN acc
  ELSE LET items == itemsOf(Head(os)) IN
       scanOrders(IF items.t = "array" THEN scanItems(acc, expName, items.a) ELSE acc,
                  expName, Tail(os))

\* (a, b) => b[1].cents - a[1].cents; a NaN difference counts as 0
compareCents(a, b) ==
  IF isNumber(a.cents) /\ isNumber(b.cents) THEN b.cents.v - a.cents.v ELSE 0

\* e placed behind every entry it does not precede: the sort is stable
insertSorted(sorted, e) ==
  LET before == {i \in 1..Len(sorted) : compareCents(sorted[i], e) > 0}
      k == IF before = {} THEN Len(sorted) + 1
           ELSE CHOOSE i \in before : \A j \in before : i <= j
  IN  SubSeq(sorted, 1, k - 1) \o <<e>> \o SubSeq(sorted, k, Len(sorted))

RECURSIVE sortByCents(_)
\* [...cardBreakdown.entries()].sort(...)
sortByCents(bd) ==
  IF bd = <<>> THEN <<>>
  ELSE insertSorted(sortByCents(SubSeq(bd, 1, Len(bd) - 1)), bd[Len(bd)])

TopN == 5

\* sortByCents without the sort: the first entries in Map order
topCardsUnsorted(bd) == SubSeq(bd, 1, Min(TopN, Len(bd)))

\* .sort(...).slice(0, 5)
topCards(bd) == SubSeq(sortByCents(bd), 1, Min(TopN, Len(bd)))

\* expansions.find(e => e.id === expId)
expansionById(expId) ==
  Expansions[CHOOSE i \in 1..Len(Expansions) : Expansions[i].id = expId]

\* one pass of `for (const expId of markedExpansions)`
expansionResult(expId, os) ==
  LET expName == toLowerCase(expansionById(expId).name)
      acc == scanOrders([totalCents |-> Num(0), totalQty |-> Num(0),
                         cardBreakdown |-> <<>>], expName, os)
  IN  [id |-> expId, totalCents |-> acc.totalCents, totalQty |-> acc.totalQty,
       cardBreakdown |-> acc.cardBreakdown, top |-> topCards(acc.cardBreakdown)]

RECURSIVE resultsOf(_, _)
\* the results array; the marked ids are taken in ascending order
resultsOf(marked, os) ==
  IF marked = {} THEN <<>>
  ELSE LET expId == CHOOSE i \in marked : \A j \in marked : i <= j IN
       <<expansionResult(expId, os)>> \o resultsOf(marked \ {expId}, os)

\* the grand total with only the first result added
grandTotalFirstOnly(rs) ==
  IF rs = <<>> THEN [cents |-> Num(0), qty |-> Num(0)]
  ELSE [cents |-> jsAdd(Num(0), rs[1].totalCents), qty |-> jsAdd(Num(0), rs[1].totalQty)]

RECURSIVE grandTotal(_)
\* grandTotalCents += r.totalCents; grandTotalQty += r.totalQty
grandTotal(rs) ==
  IF rs = <<>> THEN [cents |-> Num(0), qty |-> Num(0)]
  ELSE LET g == grandTotal(SubSeq(rs, 1, Len(rs) - 1)) IN
       [cents |-> jsAdd(g.cents, rs[Len(rs)].totalCents),
        qty |-> jsAdd(g.qty, rs[Len(rs)].totalQty)]

NoResults ==
  [painted |-> FALSE, rows |-> <<>>, grandTotalCents |-> Num(0), grandTotalQty |-> Num(0)]

\* what renderResults computes from the orders and the marked expansions
computeResults(marked, os) ==
  LET rs == resultsOf(marked, os)
      g == grandTotal(rs)
  IN  [painted |-> TRUE, rows |-> rs, grandTotalCents |-> g.cents, grandTotalQty |-> g.qty]

\* ---- before the main loop -----------------------------------------------
NoExitCode == -1

\* the main loop is running: both reference lists were obtained
Booted ==
  [phase |-> "ui", categories |-> "list", expansions |-> "list",
   exitCode |-> NoExitCode]

\* ---- the cache file -------------------------------------------------------
ORDERS_CACHE_TTL_MS == 1 * 60 * 60 * 1000
\* Date.now() - stat.mtimeMs is counted in steps of half an hour
Tick == 30 * 60 * 1000
MaxAge == 3
MaxVersion == 2

\* two processes started in the same directory
Processes == {"p", "q"}

NoList == 0            \* null
NoFile == [kind |-> "absent", v |-> NoList]
\* the file just after open(..., 'w'): no byte yet
EmptyFile == [kind |-> "empty", v |-> NoList]
\* bytes of two writers, one after the other
MixedFile == [kind |-> "mixed", v |-> NoList]
ListFile(v) == [kind |-> "list", v |-> v]
\* lists are numbered: v > 0 is the v-th list the API held, all of it, and
\* -v its first pages only
CutShort(v) == -v

\* Date.now() - stat.mtimeMs > ttl
isStale(age) == age * Tick > ORDERS_CACHE_TTL_MS

\* JSON.parse(fs.readFileSync(file, 'utf8')), null when it throws
parseFile(f) == IF f.kind = "list" THEN f.v ELSE NoList

\* seen: Date.now() - stat.mtimeMs, in ticks, of the last statSync
ProcessAtStart == [pc |-> "start", got |-> NoList, via |-> "none", seen |-> 0]

\* no process is reading the cache
CacheAtRest ==
  [file |-> NoFile, age |-> 0, api |-> 1, persisted |-> {},
   proc |-> [c \in Processes |-> ProcessAtStart]]

\* ---- one paginated loop ---------------------------------------------------
DefaultPageLimit == 200      \* parseInt(process.env.PAGE_LIMIT || '200', 10)
ScriptPageSize == 50         \* data.length === 50
MaxPages == 2

\* page: the page to request next; ranges: first and last record of every
\* page retrieved, in the order of retrieval
Pager(loop, limit, size) ==
  [loop |-> loop, PAGE_LIMIT |-> limit, size |-> size, page |-> 1,
   hasMore |-> TRUE, requested |-> <<>>, ranges |-> <<>>]

PagerAtRest == [Pager("none", DefaultPageLimit, 0) EXCEPT !.hasMore = FALSE]

\* ---- the other scripts ---------------------------------------------------
PriceFilterAtRest == [phase |-> "none"]
BulkAtRest ==
  [workingItems |-> <<>>, blueprints |-> <<>>, submitting |-> FALSE, selling |-> {}]
DateScanAtRest == [phase |-> "none"]

InitScripts ==
  /\ priceFilter = PriceFilterAtRest
  /\ bulk = BulkAtRest
  /\ dateScan = DateScanAtRest

\* ---- renderResults calls -------------------------------------------------
NoPaint == [painted |-> FALSE, asOfEnter |-> {}, aggregated |-> {}, over |-> "none"]

\* calls: for every renderResults suspended in `await fetchAllOrders()`, the
\* markedExpansions of the Enter that called it
NoRenders == [calls |-> <<>>, paint |-> NoPaint]

InitEnv ==
  /\ boot = Booted /\ cache = CacheAtRest /\ pager = PagerAtRest
  /\ renders = NoRenders
  /\ InitScripts

\* ---- actions ------------------------------------------------------------
InitTui ==
  /\ state = "game-select"
  /\ selectedGameId = NoGame
  /\ cursor = 0
  /\ scrollOffset = 0
  /\ filterMode = FALSE
  /\ filterText = <<>>
  /\ markedExpansions = {}
  /\ escapeBuffer = <<>>
  /\ timers = 0
  /\ pendingResults = 0
  /\ exited = FALSE
  /\ termRows \in 1..MaxRows
  /\ win = NoWin
  /\ cursorHidden = TRUE
  /\ rawMode = TRUE
  /\ orders = <<>>
  /\ results = NoResults

Init == InitTui /\ InitEnv

\* process.on('exit', () => showCursor())
onExit == cursorHidden' = FALSE

SetUI(m) ==
  /\ state' = m.ui.state
  /\ selectedGameId' = m.ui.selectedGameId
  /\ cursor' = m.ui.cursor
  /\ scrollOffset' = m.ui.scrollOffset
  /\ filterMode' = m.ui.filterMode
  /\ filterText' = m.ui.filterText
  /\ markedExpansions' = m.ui.markedExpansions
  /\ escapeBuffer' = m.escapeBuffer
  /\ timers' = m.timers
  /\ pendingResults' = m.pendingResults
  /\ exited' = m.exited
  /\ win' = m.win
  /\ IF m.exited THEN onExit ELSE UNCHANGED cursorHidden

SetM(m) == SetUI(m) /\ UNCHANGED <<termRows, rawMode, aggVars, envVars>>

WithinBounds(m) ==
  /\ Len(m.ui.filterText) <= MaxFilterLen
  /\ m.timers <= MaxTimers
  /\ m.pendingResults <= MaxPending

\* one 'data' event.  A chunk holds '\r' only as its last char, so that no
\* char of it is left over when handleInput suspends in renderResults.
Data(data, fresh) ==
  /\ ~exited
  /\ LET m == onData(M, data, fresh) IN WithinBounds(m) /\ SetM(m)

\* a terminal at typing speed: the bytes of one keypress arrive as one chunk,
\* and keypresses are more than 50 ms apart
TypedChunks ==
  {<<b>> : b \in Bytes} \cup {ArrowUp, ArrowDown, ArrowRight}

TypedInput ==
  /\ timers = 0
  /\ \E data \in TypedChunks, fresh \in BOOLEAN : Data(data, fresh)

\* arbitrary timing: every byte is a chunk of its own and may arrive at any time
RawBytes == {ESC, "[", "A", CR, " ", "q"}

RawInput == \E b \in RawBytes, fresh \in BOOLEAN : Data(<<b>>, fresh)

escapeTimeout ==
  /\ ~exited
  /\ timers > 0
  /\ SetM(trackTimeout(M, [onTimeout(M) EXCEPT !.timers = @ - 1]))

\* fetchAllOrders resolves for one waiting renderResults, which paints the
\* results; the totals it paints are the subject of SpecAgg and SpecTop
ordersFetched ==
  /\ ~exited
  /\ pendingResults > 0
  /\ pendingResults' = pendingResults - 1
  /\ UNCHANGED <<uiVars, escapeBuffer, timers, exited, termRows, win,
                 cursorHidden, rawMode, aggVars, envVars>>

\* if (!res.ok) { ...; process.exit(1); }
ordersFetchFailed ==
  /\ ~exited
  /\ pendingResults > 0
  /\ exited' = TRUE
  /\ onExit
  /\ UNCHANGED <<uiVars, escapeBuffer, timers, pendingResults, termRows, win,
                 rawMode, aggVars, envVars>>

Next ==
  \/ TypedInput
  \/ escapeTimeout
  \/ ordersFetched
  \/ ordersFetchFailed

Spec == Init /\ [][Next]_vars

NextRaw ==
  \/ RawInput
  \/ escapeTimeout
  \/ ordersFetched
  \/ ordersFetchFailed

SpecRaw == Init /\ [][NextRaw]_vars

\* process.on('SIGINT', () => { showCursor(); process.exit(0); })
sigint ==
  /\ ~exited
  /\ cursorHidden' = FALSE
  /\ exited' = TRUE
  /\ onExit
  /\ UNCHANGED <<uiVars, escapeBuffer, timers, pendingResults, termRows, win,
                 rawMode, aggVars, envVars>>

\* a signal the script installs no listener for (SIGTERM, SIGHUP, SIGQUIT,
\* SIGKILL) ends the process without running any of its code
FatalSignals == {"SIGTERM", "SIGHUP", "SIGQUIT", "SIGKILL"}

killedBySignal ==
  /\ ~exited
  /\ \E sig \in FatalSignals : exited' = TRUE
  /\ UNCHANGED <<uiVars, escapeBuffer, timers, pendingResults, termRows, win,
                 cursorHidden, rawMode, aggVars, envVars>>

\* the process with the signals it can receive
NextExit ==
  \/ RawInput
  \/ escapeTimeout
  \/ ordersFetched
  \/ ordersFetchFailed
  \/ sigint
  \/ killedBySignal

SpecExit == Init /\ [][NextExit]_vars

\* ---- the transaction log ------------------------------------------------
MaxOrders == 2
MaxSold == 6

\* a line item of expansion "Ak" (id 10), sold twice at 5 cents
wellFormedItem ==
  [expansion |-> <<"a", "k">>, quantity |-> Num(2),
   seller_price_cents |-> Num(5), price_cents |-> Undefined, price |-> Undefined,
   name |-> "Card A", blueprint_name |-> ""]

\* wellFormedItem with one property changed
SampleItems ==
  {wellFormedItem}
  \cup {[wellFormedItem EXCEPT !.expansion = e] : e \in {<<"A", "B">>, <<"A">>, <<>>}}
  \cup {[wellFormedItem EXCEPT !.quantity = q] : q \in {Num(1), Undefined, Str}}
  \cup {[wellFormedItem EXCEPT !.seller_price_cents = p] : p \in {Undefined, Str}}
  \cup {[wellFormedItem EXCEPT !.seller_price_cents = Undefined, !.price_cents = Num(7)],
        [wellFormedItem EXCEPT !.seller_price_cents = Undefined, !.price = Num(1)],
        [wellFormedItem EXCEPT !.seller_price_cents = Undefined, !.price = Str]}
  \cup {[wellFormedItem EXCEPT !.name = "Card B"],
        [wellFormedItem EXCEPT !.name = "", !.blueprint_name = "Card B"],
        [wellFormedItem EXCEPT !.name = ""]}

SampleOrders ==
  {[order_items |-> Array(<<i>>), items |-> NoArray] : i \in SampleItems}
  \cup {[order_items |-> NoArray, items |-> Array(<<wellFormedItem>>)],
        [order_items |-> NoArray, items |-> NotAnArray],
        [order_items |-> NoArray, items |-> NoArray],
        [order_items |-> Array(<<wellFormedItem,
                                 [wellFormedItem EXCEPT !.expansion = <<"A", "B">>]>>),
         items |-> NoArray]}

MarkedSamples == {{10}, {10, 11}, {10, 11, 12}}

\* Results was entered from game 1 with some expansions marked
InitAgg ==
  /\ state = "results"
  /\ selectedGameId = 1
  /\ cursor = 0
  /\ scrollOffset = 0
  /\ filterMode = FALSE
  /\ filterText = <<>>
  /\ markedExpansions \in MarkedSamples
  /\ escapeBuffer = <<>>
  /\ timers = 0
  /\ pendingResults = 1
  /\ exited = FALSE
  /\ termRows = 1
  /\ win = NoWin
  /\ cursorHidden = TRUE
  /\ rawMode = TRUE
  /\ orders = <<>>
  /\ results = NoResults
  /\ InitEnv

\* allOrders.push(...data): one more order of the log
receiveOrder ==
  /\ pendingResults > 0
  /\ Len(orders) < MaxOrders
  /\ \E o \in SampleOrders : orders' = Append(orders, o)
  /\ UNCHANGED <<uiVars, escapeBuffer, timers, pendingResults, exited, termRows,
                 win, cursorHidden, rawMode, results, envVars>>

\* renderResults from `const orders = await fetchAllOrders()` on
paintResults ==
  /\ pendingResults > 0
  /\ pendingResults' = pendingResults - 1
  /\ results' = computeResults(markedExpansions, orders)
  /\ UNCHANGED <<uiVars, escapeBuffer, timers, exited, termRows, win,
                 cursorHidden, rawMode, orders, envVars>>

NextAgg == receiveOrder \/ paintResults

SpecAgg == InitAgg /\ [][NextAgg]_vars

CardNames == <<"Card A", "Card B", "Card C", "Card D", "Card E", "Card F", "Card G", "Card H">>

\* the names sold so far, each once, are the first CardNames
soldNames == {itemsOf(orders[i]).a[1].name : i \in 1..Len(orders)}

\* an order with one line item of expansion "Ak": a card sold before, or the
\* next new card (names are only compared for equality)
receiveSale ==
  /\ pendingResults > 0
  /\ Len(orders) < MaxSold
  /\ \E name \in {CardNames[1], CardNames[Cardinality(soldNames) + 1]},
        cents \in {1, 2} :
       orders' = Append(orders,
                   [order_items |-> Array(<<[wellFormedItem EXCEPT
                                               !.name = name, !.quantity = Num(1),
                                               !.seller_price_cents = Num(cents)]>>),
                    items |-> NoArray])
  /\ UNCHANGED <<uiVars, escapeBuffer, timers, pendingResults, exited, termRows,
                 win, cursorHidden, rawMode, results, envVars>>

\* Results was entered from game 2, whose two expansions are "Ak" and "ak"
InitSameName ==
  /\ state = "results"
  /\ selectedGameId = 2
  /\ cursor = 0
  /\ scrollOffset = 0
  /\ filterMode = FALSE
  /\ filterText = <<>>
  /\ markedExpansions \in {{20}, {21}, {20, 21}}
  /\ escapeBuffer = <<>>
  /\ timers = 0
  /\ pendingResults = 1
  /\ exited = FALSE
  /\ termRows = 1
  /\ win = NoWin
  /\ cursorHidden = TRUE
  /\ rawMode = TRUE
  /\ orders = <<>>
  /\ results = NoResults
  /\ InitEnv

SpecSameName == InitSameName /\ [][NextAgg]_vars

NextTop == receiveSale \/ paintResults

SpecTop == InitAgg /\ [][NextTop]_vars

\* ---- the key events alone ----------------------------------------------
\* what the decoder hands to handleInput: single chars, Escape, and the
\* three-byte sequences
Keys == TypedChunks \cup {<<BS>>, <<TAB>>}

\* one `await handleInput(key)`; the orders cache is fresh, so that
\* renderResults returns without waiting for a fetch
keyEvent ==
  /\ ~exited
  /\ \E key \in Keys :
       LET m == dispatch(M, key, TRUE) IN WithinBounds(m) /\ SetM(m)

SpecUI == Init /\ [][keyEvent]_vars

\* ---- keys while renderResults waits --------------------------------------
\* Enter, Space, Escape and 'q': the cursor stays on the first row
AwaitKeys == {<<CR>>, <<" ">>, <<ESC>>, <<"q">>}

\* renderResults from `clear()` on, when fetchAllOrders has returned: the
\* aggregation over markedExpansions as it is now, painted over the screen
\* as it is now
paintOf(u, asOfEnter) ==
  [painted |-> TRUE, asOfEnter |-> asOfEnter, aggregated |-> u.markedExpansions,
   over |-> u.state]

\* a key event; an Enter that calls renderResults either waits for the
\* fetch or, with a fresh cache, paints before the next event
keyWhileAwaiting ==
  /\ ~exited
  /\ \E key \in AwaitKeys, fresh \in BOOLEAN :
       LET m == dispatch(M, key, fresh)
           r == handleInput(UI, key)
       IN  /\ WithinBounds(m)
           /\ SetUI(m)
           /\ renders' =
                IF r.call # "renderResults" THEN renders
                ELSE IF fresh
                THEN [renders EXCEPT !.paint = paintOf(m.ui, m.ui.markedExpansions)]
                ELSE [renders EXCEPT !.calls = Append(@, m.ui.markedExpansions)]
  /\ UNCHANGED <<termRows, rawMode, aggVars, boot, cache, pager, scriptVars>>

dropCall(calls, i) == SubSeq(calls, 1, i - 1) \o SubSeq(calls, i + 1, Len(calls))

\* fetchAllOrders resolves for one of the suspended calls
fetchResolved ==
  /\ ~exited
  /\ \E i \in 1..Len(renders.calls) :
       renders' = [calls |-> dropCall(renders.calls, i),
                   paint |-> paintOf(UI, renders.calls[i])]
  /\ pendingResults' = pendingResults - 1
  /\ UNCHANGED <<uiVars, escapeBuffer, timers, exited, termRows, win,
                 cursorHidden, rawMode, aggVars, boot, cache, pager, scriptVars>>

NextAwait ==
  \/ keyWhileAwaiting
  \/ fetchResolved
  \/ ordersFetchFailed

InitAwait == Init /\ termRows = MaxRows

SpecAwait == InitAwait /\ [][NextAwait]_vars

\* ---- start of the script -------------------------------------------------
\* what `await fetch(...)` and `await res.json()` can give: a JSON array, a
\* JSON value that is no array (an error object), a response with !res.ok,
\* the JSON text "" (no array, but iterable), a response with !res.ok, a
\* rejected promise (no network)
Responses == {"list", "notAList", "emptyText", "notOk", "rejected"}

InitStart ==
  /\ state = "game-select"
  /\ selectedGameId = NoGame
  /\ cursor = 0
  /\ scrollOffset = 0
  /\ filterMode = FALSE
  /\ filterText = <<>>
  /\ markedExpansions = {}
  /\ escapeBuffer = <<>>
  /\ timers = 0
  /\ pendingResults = 0
  /\ exited = FALSE
  /\ termRows \in 1..MaxRows
  /\ win = NoWin
  /\ cursorHidden = FALSE
  /\ rawMode = FALSE
  /\ orders = <<>>
  /\ results = NoResults
  /\ boot = [phase |-> "start", categories |-> "unread", expansions |-> "unread",
             exitCode |-> NoExitCode]
  /\ cache = CacheAtRest
  /\ pager = PagerAtRest
  /\ renders = NoRenders
  /\ InitScripts

tuiVars ==
  <<uiVars, escapeBuffer, timers, pendingResults, termRows, win, aggVars,
    cache, pager, renders, scriptVars>>

\* process.exit(1), or an exception nothing catches, before the main loop
bootFails(b) ==
  /\ boot' = [b EXCEPT !.phase = "failed", !.exitCode = 1]
  /\ exited' = TRUE
  /\ UNCHANGED <<tuiVars, cursorHidden, rawMode>>

\* setRawMode(true); ...; hideCursor(); ...; render()
startMainLoop(b) ==
  /\ boot' = [b EXCEPT !.phase = "ui"]
  /\ rawMode' = TRUE
  /\ cursorHidden' = TRUE
  /\ UNCHANGED <<tuiVars, exited>>

\* let expansions = readJsonIfFresh(expCachePath); fetch when it is no array
readExpansions(b) ==
  \E cached \in BOOLEAN :
    IF cached THEN startMainLoop([b EXCEPT !.expansions = "list"])
    ELSE /\ boot' = [b EXCEPT !.phase = "fetch-expansions"]
         /\ UNCHANGED <<tuiVars, exited, cursorHidden, rawMode>>

\* from the first line to the first await
startScript ==
  /\ boot.phase = "start"
  /\ \E token \in BOOLEAN, cached \in BOOLEAN :
       IF ~token THEN bootFails(boot)
       ELSE IF cached THEN readExpansions([boot EXCEPT !.categories = "list"])
       ELSE /\ boot' = [boot EXCEPT !.phase = "fetch-categories"]
            /\ UNCHANGED <<tuiVars, exited, cursorHidden, rawMode>>

\* the fetch of the categories settles; `for (const cat of categories)`
\* throws when categories is not iterable, and runs no iteration over ""
categoriesResponse ==
  /\ boot.phase = "fetch-categories"
  /\ \E r \in Responses :
       CASE r = "list" -> readExpansions([boot EXCEPT !.categories = "list"])
         [] r = "emptyText" -> readExpansions([boot EXCEPT !.categories = "unobtained"])
         [] OTHER -> bootFails([boot EXCEPT !.categories = "unobtained"])

\* the fetch of the expansions settles; a value that is no array is kept
\* as it is
expansionsResponse ==
  /\ boot.phase = "fetch-expansions"
  /\ \E r \in Responses :
       CASE r = "list" -> startMainLoop([boot EXCEPT !.expansions = "list"])
         [] r \in {"notAList", "emptyText"} ->
              startMainLoop([boot EXCEPT !.expansions = "unobtained"])
         [] OTHER -> bootFails([boot EXCEPT !.expansions = "unobtained"])

\* handleInput calls expansions.filter: a TypeError nothing catches when
\* expansions is no array; the 'exit' listener shows the cursor
firstKeyThrows ==
  /\ boot.phase = "ui" /\ boot.expansions # "list"
  /\ ~exited
  /\ exited' = TRUE
  /\ onExit
  /\ boot' = [boot EXCEPT !.exitCode = 1]
  /\ UNCHANGED <<tuiVars, rawMode>>

\* the main loop over the games and expansions of the two lists
mainLoop ==
  /\ boot.phase = "ui" /\ boot.categories = "list" /\ boot.expansions = "list"
  /\ NextRaw

NextStart ==
  \/ startScript
  \/ categoriesResponse
  \/ expansionsResponse
  \/ firstKeyThrows
  \/ mainLoop

SpecStart == InitStart /\ [][NextStart]_vars

\* ---- get-or-fetch on a shared cache file ---------------------------------
InitCache ==
  /\ InitTui /\ termRows = MaxRows
  /\ boot = Booted
  /\ pager = PagerAtRest
  /\ renders = NoRenders
  /\ InitScripts
  /\ \E present \in BOOLEAN, age \in 0..MaxAge :
       cache = IF present
               THEN [CacheAtRest EXCEPT !.file = ListFile(1), !.age = age,
                                        !.persisted = {1}]
               ELSE CacheAtRest

notCache ==
  <<uiVars, escapeBuffer, timers, pendingResults, exited, termRows, win,
    cursorHidden, rawMode, aggVars, boot, pager, renders, scriptVars>>

SetProc(k, c, p) == [k EXCEPT !.proc[c] = p]

\* const stat = fs.statSync(file); if (Date.now() - stat.mtimeMs > ttl) return null
statFile(c) ==
  /\ cache.proc[c].pc = "start"
  /\ cache' = IF cache.file.kind = "absent" \/ isStale(cache.age)
              THEN SetProc(cache, c, [cache.proc[c] EXCEPT !.pc = "fetching"])
              ELSE SetProc(cache, c, [cache.proc[c] EXCEPT !.pc = "statted",
                                                           !.seen = cache.age])
  /\ UNCHANGED notCache

\* return JSON.parse(fs.readFileSync(file)); the caller fetches unless it
\* got an array
readFile(c) ==
  /\ cache.proc[c].pc = "statted"
  /\ LET v == parseFile(cache.file) IN
       cache' = IF v # NoList
                THEN SetProc(cache, c, [cache.proc[c] EXCEPT !.pc = "done", !.got = v,
                                                             !.via = "cache"])
                ELSE SetProc(cache, c, [cache.proc[c] EXCEPT !.pc = "fetching"])
  /\ UNCHANGED notCache

\* the loop of fetchAllOrders ends, with every page, or at a page whose
\* body is no array (`break`); writeJson then opens the file for writing,
\* which empties it
fetchedList(c) ==
  /\ cache.proc[c].pc = "fetching"
  /\ \E list \in {cache.api, CutShort(cache.api)} :
       cache' = [SetProc(cache, c, [cache.proc[c] EXCEPT !.pc = "writing",
                                      !.got = list, !.via = "fetch"])
                  EXCEPT !.file = EmptyFile, !.age = 0]
  /\ UNCHANGED notCache

\* if (!res.ok) {...; process.exit(1)}, or the fetch rejects
fetchFails(c) ==
  /\ cache.proc[c].pc = "fetching"
  /\ cache' = SetProc(cache, c, [cache.proc[c] EXCEPT !.pc = "exited"])
  /\ UNCHANGED notCache

\* what the file holds after the bytes of `mine` were written from offset 0
\* over f: `mine` when f was empty or no longer than mine, else the bytes of
\* mine followed by the rest of f
afterWrite(f, mine) ==
  IF f.kind = "empty" THEN {ListFile(mine)} ELSE {ListFile(mine), MixedFile}

\* the write of fs.writeFileSync(file, JSON.stringify(data))
writeBytes(c) ==
  /\ cache.proc[c].pc = "writing"
  /\ \E f \in afterWrite(cache.file, cache.proc[c].got) :
       cache' = [SetProc(cache, c, [cache.proc[c] EXCEPT !.pc = "done"])
                  EXCEPT !.file = f, !.age = 0,
                         !.persisted = IF f.kind = "list" THEN @ \cup {f.v} ELSE @]
  /\ UNCHANGED notCache

\* half an hour passes; statSync and readFileSync follow each other at once
tick ==
  /\ cache.file.kind # "absent"
  /\ \A c \in Processes : cache.proc[c].pc # "statted"
  /\ cache.age < MaxAge
  /\ cache' = [cache EXCEPT !.age = @ + 1]
  /\ UNCHANGED notCache

\* the API holds another list (an order came in)
apiChanges ==
  /\ cache.api < MaxVersion
  /\ cache' = [cache EXCEPT !.api = @ + 1]
  /\ UNCHANGED notCache

NextCache ==
  \/ \E c \in Processes : statFile(c)
  \/ \E c \in Processes : readFile(c)
  \/ \E c \in Processes : fetchedList(c)
  \/ \E c \in Processes : fetchFails(c)
  \/ \E c \in Processes : writeBytes(c)
  \/ tick
  \/ apiChanges

SpecCache == InitCache /\ [][NextCache]_vars

\* ---- paginated fetch loops ------------------------------------------------
Loops == {"fetchAllOrders", "cardsofvalue", "script"}
PageLimits == {ScriptPageSize, DefaultPageLimit}

\* collections of up to MaxPages full pages and a rest
CollectionSizes(limit) ==
  {k * limit + rest : k \in 0..MaxPages, rest \in {0, 1, limit - 1}}

InitPages ==
  /\ InitTui /\ termRows = MaxRows
  /\ boot = Booted
  /\ cache = CacheAtRest
  /\ renders = NoRenders
  /\ InitScripts
  /\ \E loop \in Loops, limit \in PageLimits :
       \E size \in CollectionSizes(limit) : pager = Pager(loop, limit, size)

\* the server: page n of a collection of `size` records in pages of `limit`
\* records, as first and last record; empty when first > last
servePage(size, limit, n) == <<(n - 1) * limit + 1, Min(n * limit, size)>>

lengthOf(data) == IF data[2] < data[1] THEN 0 ELSE data[2] - data[1] + 1

retrieve(p, data) ==
  [p EXCEPT !.requested = Append(@, p.page),
            !.ranges = IF lengthOf(data) = 0 THEN @ ELSE Append(@, data)]

\* if (... || data.length === 0) break; orders.push(...data);
\* hasMore = data.length === PAGE_LIMIT; page++
fetchAllOrdersPage(p, data) ==
  IF lengthOf(data) = 0 THEN [retrieve(p, data) EXCEPT !.hasMore = FALSE]
  ELSE [retrieve(p, data) EXCEPT !.hasMore = (lengthOf(data) = p.PAGE_LIMIT),
                                 !.page = @ + 1]

\* hasMore = data.length > 0 && data.length === PAGE_LIMIT; page++
cardsofvaluePage(p, data) ==
  [retrieve(p, data) EXCEPT
     !.hasMore = (lengthOf(data) > 0 /\ lengthOf(data) = p.PAGE_LIMIT),
     !.page = @ + 1]

\* hasMore = data.length > 0 && data.length === 50; page++
scriptPage(p, data) ==
  [retrieve(p, data) EXCEPT
     !.hasMore = (lengthOf(data) > 0 /\ lengthOf(data) = ScriptPageSize),
     !.page = @ + 1]

loopBody(p, data) ==
  CASE p.loop = "fetchAllOrders" -> fetchAllOrdersPage(p, data)
    [] p.loop = "cardsofvalue" -> cardsofvaluePage(p, data)
    [] p.loop = "script" -> scriptPage(p, data)

\* one turn of `while (hasMore)`: the page is requested and answered
pageFetched ==
  /\ pager.hasMore
  /\ pager' = loopBody(pager, servePage(pager.size, pager.PAGE_LIMIT, pager.page))
  /\ UNCHANGED <<uiVars, escapeBuffer, timers, pendingResults, exited, termRows,
                 win, cursorHidden, rawMode, aggVars, boot, cache, renders, scriptVars>>

SpecPages == InitPages /\ [][pageFetched]_vars

\* ---- script.js: the inventory price filter -------------------------------
MaxProducts == 2

DigitChars == <<"0", "1", "2", "3", "4", "5", "6", "7", "8", "9">>
isDigit(c) == \E i \in 1..Len(DigitChars) : DigitChars[i] = c
digitOf(c) == (CHOOSE i \in 1..Len(DigitChars) : DigitChars[i] = c) - 1

RECURSIVE digitsPrefix(_)
digitsPrefix(s) ==
  IF s # <<>> /\ isDigit(Head(s)) THEN <<Head(s)>> \o digitsPrefix(Tail(s)) ELSE <<>>

RECURSIVE valueOfDigits(_)
valueOfDigits(ds) ==
  IF ds = <<>> THEN 0
  ELSE valueOfDigits(SubSeq(ds, 1, Len(ds) - 1)) * 10 + digitOf(ds[Len(ds)])

RECURSIVE trimStart(_)
trimStart(s) == IF s # <<>> /\ Head(s) = " " THEN trimStart(Tail(s)) ELSE s

\* parseInt(s, 10): leading white space, a sign, then the digits up to the
\* first char that is none; NaN without a digit
parseInt(s) ==
  LET t == trimStart(s)
      negative == t # <<>> /\ Head(t) = "-"
      ds == digitsPrefix(IF negative THEN Tail(t) ELSE t)
  IN  IF ds = <<>> THEN NaN
      ELSE Num(IF negative THEN 0 - valueOfDigits(ds) ELSE valueOfDigits(ds))

\* compare(price, comparison, value); a comparison with undefined is false
compare(price, comparison, value) ==
  CASE comparison = "greater" -> isNumber(price) /\ price.v > value.v
    [] comparison = "less" -> isNumber(price) /\ price.v < value.v
    [] comparison = "equal" -> isNumber(price) /\ price.v = value.v

\* product.quantity || 1
quantityOrOne(product) ==
  IF nullish(product.quantity) \/ product.quantity = Num(0) THEN 1
  ELSE product.quantity.v

RECURSIVE countFiltered(_, _, _)
\* data.filter(...).reduce((acc, product) => acc + (product.quantity || 1), 0)
countFiltered(data, comparison, value) ==
  IF data = <<>> THEN 0
  ELSE (IF compare(Head(data).price_cents, comparison, value)
        THEN quantityOrOne(Head(data)) ELSE 0)
       + countFiltered(Tail(data), comparison, value)

Comparisons == {"greater", "less", "equal", "atleast"}
ValueStrings == {<<"8">>, <<"1", "0">>, <<"-", "1">>, <<"8", "x">>, <<"x">>, <<>>}

SampleProducts ==
  {[price_cents |-> p, quantity |-> q] :
     p \in {Num(5), Num(8), Undefined}, q \in {Num(2), Num(0), Undefined}}

RECURSIVE Inventories(_)
Inventories(n) ==
  IF n = 0 THEN {<<>>}
  ELSE Inventories(n - 1)
       \cup {Append(inv, p) : inv \in {i \in Inventories(n - 1) : Len(i) = n - 1},
                              p \in SampleProducts}

InitFilter ==
  /\ InitTui /\ termRows = MaxRows
  /\ boot = Booted /\ cache = CacheAtRest /\ pager = PagerAtRest
  /\ renders = NoRenders
  /\ bulk = BulkAtRest /\ dateScan = DateScanAtRest
  /\ \E comparison \in Comparisons, valueStr \in ValueStrings,
        inventory \in Inventories(MaxProducts) :
       priceFilter = [phase |-> "start", comparison |-> comparison,
                      valueStr |-> valueStr, value |-> NaN, inventory |-> inventory,
                      page |-> 1, hasMore |-> TRUE, totalCount |-> 0,
                      requested |-> 0, exitCode |-> NoExitCode]

notPriceFilter ==
  <<uiVars, escapeBuffer, timers, pendingResults, exited, termRows, win,
    cursorHidden, rawMode, aggVars, boot, cache, pager, renders, bulk, dateScan>>

\* const value = parseInt(valueStr, 10); the usage test
parseArguments ==
  /\ priceFilter.phase = "start"
  /\ LET value == parseInt(priceFilter.valueStr) IN
     priceFilter' =
       IF priceFilter.comparison \notin {"greater", "less", "equal"} \/ value = NaN
       THEN [priceFilter EXCEPT !.phase = "rejected", !.value = value, !.exitCode = 1]
       ELSE [priceFilter EXCEPT !.phase = "fetching", !.value = value]
  /\ UNCHANGED notPriceFilter

\* one turn of `while (hasMore)`; after the last the total is printed
productsPage ==
  /\ priceFilter.phase = "fetching"
  /\ LET range == servePage(Len(priceFilter.inventory), ScriptPageSize, priceFilter.page)
         data == SubSeq(priceFilter.inventory, range[1], range[2])
         hasMore == Len(data) > 0 /\ Len(data) = ScriptPageSize
     IN  priceFilter' =
           [priceFilter EXCEPT
              !.totalCount = @ + countFiltered(data, priceFilter.comparison, priceFilter.value),
              !.hasMore = hasMore, !.page = @ + 1, !.requested = @ + 1,
              !.phase = IF hasMore THEN "fetching" ELSE "done"]
  /\ UNCHANGED notPriceFilter

\* if (!res.ok) {...; process.exit(1)}
productsFail ==
  /\ priceFilter.phase = "fetching"
  /\ priceFilter' = [priceFilter EXCEPT !.phase = "failed", !.requested = @ + 1,
                                        !.exitCode = 1]
  /\ UNCHANGED notPriceFilter

NextFilter == parseArguments \/ productsPage \/ productsFail

SpecFilter == InitFilter /\ [][NextFilter]_vars

\* ---- the bulk listing page ------------------------------------------------
\* the blueprints of two expansions, as fetchBlueprints gives them; the id
\* is the key of a blueprint
Blueprints ==
  << [id |-> 1, name |-> <<"A", "a">>, expansion_id |-> 1],
     [id |-> 2, name |-> <<"b">>, expansion_id |-> 1],
     [id |-> 3, name |-> <<"a", "B">>, expansion_id |-> 2] >>

BlueprintIds == {Blueprints[i].id : i \in 1..Len(Blueprints)}
BlueprintExpansions == {Blueprints[i].expansion_id : i \in 1..Len(Blueprints)}

\* letterFilter as typed
LetterFilters == {<<>>, <<"a">>, <<"-", "a">>, <<"b", "-">>, <<"a", "-", "b">>, <<"a", "b">>}

\* defaultQuantity and defaultPrice as set
Defaults == {[quantity |-> q, price |-> p] : q \in {0, 1}, p \in {"", "1.50"}}

Alphabet == <<"-", "a", "b">>
charCode(c) == CHOOSE i \in 1..Len(Alphabet) : Alphabet[i] = c

\* filter.split('-'): the text before the first '-' and the text after it
splitStart(filter) ==
  SubSeq(filter, 1, (CHOOSE i \in 1..Len(filter) :
                       filter[i] = "-" /\ \A j \in 1..(i - 1) : filter[j] # "-") - 1)
splitEnd(filter) ==
  SubSeq(filter, Len(splitStart(filter)) + 2, Len(filter))

\* filterByLetter(name) for letterFilter; the texts compared are single chars
filterByLetter(name, letterFilter) ==
  LET firstChar == toLowerCaseChar(name[1])
      filter == toLowerCase(letterFilter)
  IN  IF filter = <<>> THEN TRUE
      ELSE IF Len(filter) = 1 THEN firstChar = filter[1]
      ELSE IF \E i \in 1..Len(filter) : filter[i] = "-"
      THEN LET start == splitStart(filter)
               end == splitEnd(filter)
           IN  IF start = <<>> /\ end # <<>> THEN charCode(firstChar) <= charCode(end[1])
               ELSE IF start # <<>> /\ end = <<>> THEN charCode(firstChar) >= charCode(start[1])
               ELSE IF start # <<>> /\ end # <<>>
               THEN charCode(firstChar) >= charCode(start[1])
                    /\ charCode(firstChar) <= charCode(end[1])
               ELSE TRUE
      ELSE TRUE

\* newRows: blueprints.filter(...).map(bp => ({blueprint: bp, selected: false, ...}))
newRows(blueprints, letterFilter, defaults) ==
  LET Kept(bp) == filterByLetter(bp.name, letterFilter)
      kept == SelectSeq(blueprints, Kept)
  IN  [i \in 1..Len(kept) |->
         [id |-> kept[i].id, selected |-> FALSE, quantity |-> defaults.quantity,
          price |-> defaults.price]]

rowIds(rows) == {rows[i].id : i \in 1..Len(rows)}

\* the update without the existingIds test: [...prev, ...newRows]
addItemsNoTest(prev, rows) == prev \o rows

\* setWorkingItems(prev => [...prev, ...toAdd])
addItems(prev, rows) ==
  LET New(r) == r.id \notin rowIds(prev) IN prev \o SelectSeq(rows, New)

\* prev.map(row => row.blueprint.id === blueprintId ? {...row, ...updates} : row)
updateRow(prev, blueprintId, field, value) ==
  [i \in 1..Len(prev) |->
     IF prev[i].id = blueprintId
     THEN (CASE field = "selected" -> [prev[i] EXCEPT !.selected = value]
             [] field = "quantity" -> [prev[i] EXCEPT !.quantity = value]
             [] field = "price" -> [prev[i] EXCEPT !.price = value])
     ELSE prev[i]]

\* prev.filter(row => row.blueprint.id !== blueprintId)
deleteRow(prev, blueprintId) ==
  LET Other(r) == r.id # blueprintId IN SelectSeq(prev, Other)

\* prev.filter(row => !row.selected)
deleteSelected(prev) ==
  LET NotSelected(r) == ~r.selected IN SelectSeq(prev, NotSelected)

\* prev.map(row => ({...row, quantity: defaultQuantity, price: defaultPrice}))
applyDefaultsToAll(prev, defaults) ==
  [i \in 1..Len(prev) |->
     [prev[i] EXCEPT !.quantity = defaults.quantity, !.price = defaults.price]]

\* (r.quantity > 0 || r.quantityFoil > 0) && r.price !== '' && parseFloat(r.price) > 0
sellable(r) == r.quantity > 0 /\ r.price = "1.50"

sellableIds(rows) == {rows[i].id : i \in {j \in 1..Len(rows) : sellable(rows[j])}}

\* prev.filter(row => !soldIds.has(row.blueprint.id))
removeSold(prev, soldIds) ==
  LET Kept(r) == r.id \notin soldIds IN SelectSeq(prev, Kept)

InitBulk ==
  /\ InitTui /\ termRows = MaxRows
  /\ boot = Booted /\ cache = CacheAtRest /\ pager = PagerAtRest
  /\ renders = NoRenders
  /\ priceFilter = PriceFilterAtRest /\ dateScan = DateScanAtRest
  /\ bulk = BulkAtRest

notBulk ==
  <<uiVars, escapeBuffer, timers, pendingResults, exited, termRows, win,
    cursorHidden, rawMode, aggVars, boot, cache, pager, renders, priceFilter,
    dateScan>>

SetWorkingItems(rows) ==
  /\ bulk' = [bulk EXCEPT !.workingItems = rows]
  /\ UNCHANGED notBulk

\* an expansion is picked and its blueprints are loaded
selectExpansion ==
  /\ \E e \in BlueprintExpansions :
       LET Of(bp) == bp.expansion_id = e IN
       bulk' = [bulk EXCEPT !.blueprints = SelectSeq(Blueprints, Of)]
  /\ UNCHANGED notBulk

handleAddItems ==
  /\ Len(bulk.blueprints) # 0
  /\ \E letterFilter \in LetterFilters, defaults \in Defaults :
       SetWorkingItems(addItems(bulk.workingItems,
                                newRows(bulk.blueprints, letterFilter, defaults)))

\* a field of a row is edited
editRow ==
  \E id \in rowIds(bulk.workingItems) :
    \/ \E v \in BOOLEAN : SetWorkingItems(updateRow(bulk.workingItems, id, "selected", v))
    \/ \E v \in {0, 1} : SetWorkingItems(updateRow(bulk.workingItems, id, "quantity", v))
    \/ \E v \in {"", "1.50"} :
         SetWorkingItems(updateRow(bulk.workingItems, id, "price", v))

removeRow ==
  \E id \in rowIds(bulk.workingItems) :
    SetWorkingItems(deleteRow(bulk.workingItems, id))

removeSelected == SetWorkingItems(deleteSelected(bulk.workingItems))

\* the checkbox of the table header: prev.map(r => ({...r, selected: checked}))
selectAll ==
  \E checked \in BOOLEAN :
    SetWorkingItems([i \in 1..Len(bulk.workingItems) |->
                       [bulk.workingItems[i] EXCEPT !.selected = checked]])

applyDefaults ==
  \E defaults \in Defaults :
    SetWorkingItems(applyDefaultsToAll(bulk.workingItems, defaults))

\* handleSell up to `await bulkCreateProducts({ products })`
handleSell ==
  /\ ~bulk.submitting
  /\ sellableIds(bulk.workingItems) # {}
  /\ bulk' = [bulk EXCEPT !.submitting = TRUE,
                          !.selling = sellableIds(bulk.workingItems)]
  /\ UNCHANGED notBulk

\* bulkCreateProducts settles: without errors, with errors, or rejected
sellSettles ==
  /\ bulk.submitting
  /\ \E created \in BOOLEAN :
       bulk' = [bulk EXCEPT
                  !.workingItems = IF created THEN removeSold(@, bulk.selling) ELSE @,
                  !.submitting = FALSE, !.selling = {}]
  /\ UNCHANGED notBulk

NextBulk ==
  \/ selectExpansion
  \/ handleAddItems
  \/ editRow
  \/ removeRow
  \/ removeSelected
  \/ selectAll
  \/ applyDefaults
  \/ handleSell
  \/ sellSettles

SpecBulk == InitBulk /\ [][NextBulk]_vars

\* ---- cardsSoldOfSet.js ------------------------------------------------------
\* days are counted from 1; an order without a date has NoDate
MaxDay == 3
MaxScanned == 3
NoDate == 0
ScanLimit == 2

\* the items an order is made of: one item of expansion 1 with a quantity,
\* or one item of expansion 2 without
SoldItems ==
  { [expansion_id |-> 1, quantity |-> Num(2), price_cents |-> 150],
    [expansion_id |-> 2, quantity |-> Undefined, price_cents |-> 300] }

\* the orders of the account as /orders?sort=date.desc lists them: the dated
\* ones from the newest to the oldest, the ones without a date anywhere
sortedDesc(list) ==
  \A i, j \in 1..Len(list) :
    (i < j /\ list[i].date # NoDate /\ list[j].date # NoDate)
      => list[i].date >= list[j].date

OrderLists ==
  { list \in UNION { [1..n -> [date : 0..MaxDay, item : SoldItems]] : n \in 0..MaxScanned } :
      sortedDesc(list) }

\* dateStr of the command line: a day, 0 when it is absent, -1 when it is
\* a text that is no date
DateStrings == (-1)..MaxDay

\* item.quantity ?? 1
quantityOr1(item) == IF nullish(item.quantity) THEN 1 ELSE item.quantity.v

\* orderDate < fromDate, moved by a day
isBeforeByADay(orderDate, fromDate) == orderDate + 1 < fromDate

\* orderDate < fromDate
isBefore(orderDate, fromDate) == orderDate < fromDate

\* soldSets.set(expId, {name, count: prev.count + (item.quantity ?? 1)}), the
\* Map as the sequence of its entries in insertion order
soldSetsSet(soldSets, item) ==
  IF \E k \in 1..Len(soldSets) : soldSets[k].id = item.expansion_id
  THEN [k \in 1..Len(soldSets) |->
          IF soldSets[k].id = item.expansion_id
          THEN [soldSets[k] EXCEPT !.count = @ + quantityOr1(item)]
          ELSE soldSets[k]]
  ELSE Append(soldSets, [id |-> item.expansion_id, count |-> quantityOr1(item)])

\* `for (const order of data)` from the i-th order of the page on; n is the
\* place of data[1] in the listing
RECURSIVE readOrders(_, _, _, _)
readOrders(data, i, n, st) ==
  IF i > Len(data) THEN st
  ELSE IF data[i].date = NoDate THEN readOrders(data, i + 1, n, st)
  ELSE IF isBefore(data[i].date, st.fromDate) THEN [st EXCEPT !.hasMore = FALSE]
  ELSE readOrders(data, i + 1, n,
         [st EXCEPT !.orders = Append(@, [place |-> n + i - 1, date |-> data[i].date,
                                          item |-> data[i].item]),
                    !.soldSets = soldSetsSet(@, data[i].item)])

\* page n of the listing at ScanLimit orders a page
ordersPageOf(listing, n) ==
  SubSeq(listing, (n - 1) * ScanLimit + 1, Min(n * ScanLimit, Len(listing)))

\* the sums over `orders` for the chosen set
RECURSIVE totalsOf(_, _)
totalsOf(pushed, expansionId) ==
  IF pushed = <<>> THEN [qty |-> 0, cents |-> 0]
  ELSE LET rest == totalsOf(Tail(pushed), expansionId)
           item == Head(pushed).item
       IN  IF item.expansion_id = expansionId
           THEN [qty |-> rest.qty + quantityOr1(item),
                 cents |-> rest.cents + item.price_cents * quantityOr1(item)]
           ELSE rest

InitScan ==
  /\ InitTui /\ termRows = MaxRows
  /\ boot = Booted /\ cache = CacheAtRest /\ pager = PagerAtRest
  /\ renders = NoRenders
  /\ priceFilter = PriceFilterAtRest /\ bulk = BulkAtRest
  /\ \E dateStr \in DateStrings, listing \in OrderLists :
       dateScan = [phase |-> "start", dateStr |-> dateStr, fromDate |-> NoDate,
                   listing |-> listing, page |-> 1, hasMore |-> TRUE,
                   orders |-> <<>>, soldSets |-> <<>>, chosen |-> 0,
                   totalSoldQty |-> 0, totalSoldCents |-> 0,
                   exitCode |-> NoExitCode]

notDateScan ==
  <<uiVars, escapeBuffer, timers, pendingResults, exited, termRows, win,
    cursorHidden, rawMode, aggVars, boot, cache, pager, renders, priceFilter,
    bulk>>

\* lines 21-31: the date of the command line
parseDate ==
  /\ dateScan.phase = "start"
  /\ dateScan' =
       IF dateScan.dateStr >= 1
       THEN [dateScan EXCEPT !.phase = "scanning", !.fromDate = dateScan.dateStr]
       ELSE [dateScan EXCEPT !.phase = "exited", !.exitCode = 1]
  /\ UNCHANGED notDateScan

\* one turn of `while (hasMore)`, and what follows the loop when it ends
scanPage ==
  /\ dateScan.phase = "scanning"
  /\ LET data == ordersPageOf(dateScan.listing, dateScan.page)
         read == readOrders(data, 1, (dateScan.page - 1) * ScanLimit + 1, dateScan)
         more == IF Len(data) = 0 THEN FALSE
                 ELSE read.hasMore /\ Len(data) = ScanLimit
         after == IF Len(data) = 0 THEN dateScan
                  ELSE [read EXCEPT !.hasMore = more, !.page = @ + 1]
     IN  dateScan' =
           IF more THEN after
           ELSE IF Len(after.soldSets) = 0
           THEN [after EXCEPT !.phase = "exited", !.exitCode = 0]
           ELSE [after EXCEPT !.phase = "listed"]
  /\ UNCHANGED notDateScan

\* `!res.ok`, or a body that is no array
scanFails ==
  /\ dateScan.phase = "scanning"
  /\ dateScan' = [dateScan EXCEPT !.phase = "exited", !.exitCode = 1]
  /\ UNCHANGED notDateScan

\* an answer to 'Select a set by number: ', and the totals of the chosen set
selectSet ==
  /\ dateScan.phase = "listed"
  /\ \E num \in 0..(Len(dateScan.soldSets) + 1) :
       IF num >= 1 /\ num <= Len(dateScan.soldSets)
       THEN LET sums == totalsOf(dateScan.orders, dateScan.soldSets[num].id)
            IN  dateScan' = [dateScan EXCEPT !.phase = "summed", !.chosen = num,
                                             !.totalSoldQty = sums.qty,
                                             !.totalSoldCents = sums.cents]
       ELSE dateScan' = dateScan
  /\ UNCHANGED notDateScan

NextScan ==
  \/ parseDate
  \/ scanPage
  \/ scanFails
  \/ selectSet

SpecScan == InitScan /\ [][NextScan]_vars

TypeOK ==
  /\ state \in {"game-select", "expansion-select", "results"}
  /\ cursor \in -1..3
  /\ scrollOffset \in -1..3
  /\ markedExpansions \subseteq ExpansionIds
  /\ timers \in 0..MaxTimers
  /\ pendingResults \in 0..MaxPending

\* ---- properties ---------------------------------------------------------
onListScreen == state \in {"game-select", "expansion-select"}

\* the list the active screen shows
filteredList == IF state = "game-select" THEN filteredGamesOf(UI) ELSE filteredExpsOf(UI)

\* the expansions of the selected game
gameExpansionIds == {Expansions[i].id : i \in {j \in 1..Len(Expansions) : Expansions[j].game_id = selectedGameId}}

\* C1: on GameSelect and ExpansionSelect, after every render,
\* scrollOffset <= cursor < scrollOffset + visibleRows when the filtered list
\* is non-empty, and cursor = scrollOffset = 0 when it is empty.
C1_ViewportInvariant ==
  onListScreen =>
    IF Len(filteredList) = 0
    THEN cursor = 0 /\ scrollOffset = 0
    ELSE scrollOffset <= cursor /\ cursor < scrollOffset + getVisibleRows

\* C2: on GameSelect and ExpansionSelect, 0 <= cursor < length of the
\* filtered list, or cursor = 0 when the filtered list is empty.
C2_CursorInRange ==
  onListScreen =>
    IF Len(filteredList) = 0
    THEN cursor = 0
    ELSE 0 <= cursor /\ cursor < Len(filteredList)

\* C3: the bytes ESC [ A, with '[' and 'A' delivered before the timer started
\* by that ESC byte fires, hand exactly one key to handleInput, the ArrowUp
\* sequence: no Escape, no '[' and no 'A'.
C3_ArrowUpOnly ==
  (win.open /\ win.bytes = ArrowUp) => win.events = <<ArrowUp>>

\* C4: an ESC byte that started a timer and is followed by no byte before that
\* timer fires has handed exactly one Escape key to handleInput when the timer
\* has fired, and the escape buffer is empty then.
C4_LoneEscape ==
  (~win.open /\ win.bytes = <<ESC>>) =>
    (win.events = << <<ESC>> >> /\ escapeBuffer = <<>>)

C4_Witness ==
  /\ ~win.open /\ win.bytes = <<ESC>> /\ win.events = << <<ESC>> >>
  /\ timers = 0
  /\ state = "game-select" /\ selectedGameId # NoGame

\* C5: while a renderResults call waits for the orders, no key is handled:
\* no step changes state, cursor, filterText or markedExpansions, and the
\* process does not exit on a keypress (only a failed fetch ends it).
C5_NoKeyWhileAwaiting ==
  [][pendingResults > 0 =>
       /\ state' = state
       /\ cursor' = cursor
       /\ filterText' = filterText
       /\ markedExpansions' = markedExpansions
       /\ (exited' => ordersFetchFailed)]_vars

\* C6: every step from GameSelect to ExpansionSelect (Enter on the highlighted
\* filtered game) selects that game and leaves cursor = 0, scrollOffset = 0,
\* filterText = '' and markedExpansions empty.
C6_EnterGameResets ==
  [][(state = "game-select" /\ state' = "expansion-select") =>
       /\ cursor + 1 \in 1..Len(filteredGamesOf(UI))
       /\ selectedGameId' = filteredGamesOf(UI)[cursor + 1].id
       /\ cursor' = 0
       /\ scrollOffset' = 0
       /\ filterText' = <<>>
       /\ markedExpansions' = {}]_vars

\* an ExpansionSelect just entered while the results of an earlier visit,
\* which had marks, are still awaited
C6_Witness ==
  /\ state = "expansion-select" /\ selectedGameId = 1
  /\ cursor = 0 /\ scrollOffset = 0 /\ filterText = <<>> /\ ~filterMode
  /\ markedExpansions = {}
  /\ pendingResults = MaxPending

\* C7: markedExpansions holds only ids of expansions of the selected game.
C7_MarksOfSelectedGame == markedExpansions \subseteq gameExpansionIds

C7_Witness ==
  /\ selectedGameId = 2 /\ markedExpansions = {20, 21}
  /\ state = "expansion-select" /\ pendingResults > 0

\* C8: an Escape key handled on ExpansionSelect outside filter mode (the timer
\* of a lone ESC byte firing) moves to GameSelect with cursor = 0,
\* scrollOffset = 0, filterText = '' and markedExpansions empty.
C8_EscapeBack ==
  [][(escapeTimeout /\ escapeBuffer = <<ESC>> /\ state = "expansion-select" /\ ~filterMode) =>
       /\ state' = "game-select"
       /\ cursor' = 0
       /\ scrollOffset' = 0
       /\ filterText' = <<>>
       /\ markedExpansions' = {}]_vars

\* back on GameSelect, with nothing marked, while results asked for with
\* marks are still awaited
C8_Witness ==
  /\ state = "game-select" /\ selectedGameId # NoGame
  /\ cursor = 0 /\ scrollOffset = 0 /\ filterText = <<>>
  /\ markedExpansions = {} /\ pendingResults > 0
  /\ escapeBuffer = <<>> /\ timers = 0

highlightedExpansion == filteredExpsOf(UI)[cursor + 1].id

\* C9: a Space key on ExpansionSelect with an expansion highlighted changes
\* the membership of exactly that expansion's id in markedExpansions, leaves
\* state, cursor and filterText unchanged, and a second Space right after it
\* gives back the markedExpansions of before the first.
C9_SpaceToggles ==
  [][(/\ state = "expansion-select" /\ ~filterMode
      /\ cursor + 1 \in 1..Len(filteredExpsOf(UI))
      /\ \E fresh \in BOOLEAN : Data(<<" ">>, fresh)) =>
       /\ markedExpansions' =
            (markedExpansions \ {highlightedExpansion})
              \cup ({highlightedExpansion} \ markedExpansions)
       /\ markedExpansions' # markedExpansions
       /\ state' = state
       /\ cursor' = cursor
       /\ filterText' = filterText
       /\ handleInput(UI', <<" ">>).ui.markedExpansions = markedExpansions]_vars

\* the second of three expansions is highlighted and is the only one marked
C9_Witness ==
  /\ state = "expansion-select" /\ selectedGameId = 1
  /\ cursor = 1 /\ filterText = <<>> /\ markedExpansions = {11}

\* C10: from Results, every key other than 'q' moves to ExpansionSelect, no
\* step changes markedExpansions, and no step leads to GameSelect.  The steps
\* that hand no key to handleInput are: a lone ESC byte entering the escape
\* buffer, a timer firing on a buffer that is not a lone ESC, and the end of a
\* fetch.
C10_ResultsGoBack ==
  [][state = "results" =>
       /\ state' \in {"results", "expansion-select"}
       /\ markedExpansions' = markedExpansions
       /\ (state' = "results" /\ ~exited') =>
            \/ escapeBuffer = <<>> /\ escapeBuffer' = <<ESC>>
            \/ timers' < timers /\ escapeBuffer # <<ESC>>
            \/ pendingResults' < pendingResults
       /\ exited' => (Data(<<"q">>, TRUE) \/ ordersFetchFailed)]_vars

\* a key has led from Results, whose orders are still awaited, back to
\* ExpansionSelect, and the marks are still there
C10_Witness ==
  /\ state = "expansion-select" /\ pendingResults > 0
  /\ markedExpansions = {10, 12}

\* C11: a step from Results to ExpansionSelect leaves cursor = 0 and
\* scrollOffset = 0.
C11_BackFromResultsResets ==
  [][(state = "results" /\ state' = "expansion-select") =>
       (cursor' = 0 /\ scrollOffset' = 0)]_vars

\* Enter on ExpansionSelect outside filter mode: Results and renderResults
\* when something is marked, nothing otherwise
enterOnExpansionSelect ==
  (/\ state = "expansion-select" /\ ~filterMode
   /\ \E fresh \in BOOLEAN : Data(<<CR>>, fresh)) =>
     IF markedExpansions # {}
     THEN /\ state' = "results"
          /\ handleInput(UI, <<CR>>).call = "renderResults"
          /\ markedExpansions' = markedExpansions
     ELSE /\ UNCHANGED uiVars
          /\ handleInput(UI, <<CR>>).call = "none"
          /\ pendingResults' = pendingResults

resultsOnlyWithMarks ==
  (state # "results" /\ state' = "results") =>
     (state = "expansion-select" /\ markedExpansions # {})

\* C12: outside filter mode, Enter on ExpansionSelect moves to Results and
\* calls renderResults exactly when markedExpansions is non-empty, and leaves
\* the UI state unchanged when it is empty; every step into Results starts
\* from ExpansionSelect with markedExpansions non-empty.
C12_EnterExpansion == [][enterOnExpansionSelect /\ resultsOnlyWithMarks]_vars

\* Results entered with two expansions marked, the orders still awaited
C12_Witness ==
  /\ state = "results" /\ markedExpansions = {10, 11}
  /\ pendingResults = 1

sameLetter(a, b) == a = b \/ {a, b} = {"A", "a"} \/ {a, b} = {"B", "b"}

containsIgnoringCase(name, text) ==
  \E off \in 0..(Len(name) - Len(text)) :
    \A k \in 1..Len(text) : sameLetter(name[off + k], text[k])

\* f holds exactly the elements of list that satisfy Keep, in the order of list
isFilterOf(f, list, Keep(_)) ==
  LET kept == {i \in 1..Len(list) : Keep(list[i])} IN
  /\ Len(f) = Cardinality(kept)
  /\ \A i \in kept : f[Cardinality({j \in kept : j <= i})] = list[i]

\* C20: the filtered list is exactly the subsequence, in original order, of
\* the games (or of the selected game's expansions) whose name contains
\* filterText ignoring case; the empty text keeps the whole list.
C20_FilterIsSubsequence ==
  LET Match(e) == containsIgnoringCase(e.name, filterText)
      OfGame(e) == e.game_id = selectedGameId
  IN  /\ isFilterOf(filteredGamesOf(UI), Games, Match)
      /\ isFilterOf(gameExpansionsOf(UI), Expansions, OfGame)
      /\ isFilterOf(filteredExpsOf(UI), gameExpansionsOf(UI), Match)
      /\ filterText = <<>> => filteredGamesOf(UI) = Games

\* typing 'B' on the expansions "Ak", "aB", "jq" of game 1 keeps exactly "aB"
C20_Witness ==
  /\ state = "expansion-select" /\ selectedGameId = 1
  /\ filterText = <<"B">>
  /\ Len(filteredExpsOf(UI)) = 1 /\ filteredExpsOf(UI)[1].id = 11
  /\ Len(filteredGamesOf(UI)) = 1 /\ filteredGamesOf(UI)[1].id = 2

\* C14: the process never ends with the cursor hidden.
C14_CursorShownAtExit == exited => ~cursorHidden

\* C15: the process never ends with standard input still in raw mode.
C15_RawModeRestored == exited => ~rawMode

\* ---- the totals of the Results screen ----------------------------------
RECURSIVE lineItems(_)
\* the line items of the log in scan order
lineItems(os) ==
  IF os = <<>> THEN <<>>
  ELSE (IF itemsOf(Head(os)).t = "array" THEN itemsOf(Head(os)).a ELSE <<>>)
       \o lineItems(Tail(os))

sameNameIgnoringCase(a, b) ==
  Len(a) = Len(b) /\ \A k \in 1..Len(a) : sameLetter(a[k], b[k])

\* the line items recorded under the name of expansion expId
soldUnder(expId, os) ==
  LET Named(item) == sameNameIgnoringCase(item.expansion, expansionById(expId).name)
  IN  SelectSeq(lineItems(os), Named)

\* the revenue field of a line item, whichever of its three shapes is present
revenueOf(item) ==
  IF ~nullish(item.seller_price_cents) THEN item.seller_price_cents
  ELSE IF ~nullish(item.price_cents) THEN item.price_cents
  ELSE IF isNumber(item.price) THEN Num(item.price.v * 100)
  ELSE item.price

isWellFormed(item) == isNumber(item.quantity) /\ isNumber(revenueOf(item))

RECURSIVE sumSeq(_)
sumSeq(ns) == IF ns = <<>> THEN 0 ELSE Head(ns) + sumSeq(Tail(ns))

sumOver(seq, F(_)) == sumSeq([i \in 1..Len(seq) |-> F(seq[i])])

qtyOf(item) == item.quantity.v
revenueTimesQty(item) == revenueOf(item).v * item.quantity.v

\* C16: when every line item recorded under a marked expansion's name
\* (ignoring case, exact equality) has a numeric quantity and revenue, the
\* expansion's totalQty is the sum of their quantities and its totalCents the
\* sum of revenue x quantity; items of other names add nothing.
C16_PerExpansionTotals ==
  results.painted =>
    \A k \in 1..Len(results.rows) :
      LET r == results.rows[k]
          sold == soldUnder(r.id, orders)
      IN  (\A i \in 1..Len(sold) : isWellFormed(sold[i])) =>
            /\ r.totalQty = Num(sumOver(sold, qtyOf))
            /\ r.totalCents = Num(sumOver(sold, revenueTimesQty))

\* "Ak", "aB" and "jq" marked; the log holds one "ak" item (2 x 5) and one
\* item of expansion "A"
C16_Witness ==
  /\ results.painted /\ markedExpansions = {10, 11, 12}
  /\ Len(orders) = 2
  /\ lineItems(orders) = <<wellFormedItem, [wellFormedItem EXCEPT !.expansion = <<"A">>]>>
  /\ results.rows[1].totalQty = Num(2) /\ results.rows[1].totalCents = Num(10)
  /\ results.rows[2].totalQty = Num(0) /\ results.rows[2].totalCents = Num(0)

rowQty(r) == r.totalQty.v
rowCents(r) == r.totalCents.v

\* C17: the grand total quantity is the sum of the per-expansion totalQty and
\* the grand total revenue the sum of the per-expansion totalCents (and is
\* not a number when one of them is not).
C17_GrandTotalAdditive ==
  results.painted =>
    /\ IF \A k \in 1..Len(results.rows) : isNumber(results.rows[k].totalQty)
       THEN results.grandTotalQty = Num(sumOver(results.rows, rowQty))
       ELSE ~isNumber(results.grandTotalQty)
    /\ IF \A k \in 1..Len(results.rows) : isNumber(results.rows[k].totalCents)
       THEN results.grandTotalCents = Num(sumOver(results.rows, rowCents))
       ELSE ~isNumber(results.grandTotalCents)

\* two expansions with sales: 2 x 5 under "Ak" and 2 x 5 under "aB"
C17_Witness ==
  /\ results.painted /\ markedExpansions = {10, 11}
  /\ results.rows[1].totalCents = Num(10) /\ results.rows[2].totalCents = Num(10)
  /\ results.grandTotalQty = Num(4) /\ results.grandTotalCents = Num(20)

\* C18: a line item whose quantity or revenue is missing or not a number
\* adds nothing: each expansion's totals are the sums over the well-formed
\* items recorded under its name, and its breakdown holds no other item.
C18_MalformedContributesZero ==
  results.painted =>
    \A k \in 1..Len(results.rows) :
      LET r == results.rows[k]
          good == SelectSeq(soldUnder(r.id, orders), isWellFormed)
      IN  /\ r.totalQty = Num(sumOver(good, qtyOf))
          /\ r.totalCents = Num(sumOver(good, revenueTimesQty))
          /\ Len(r.cardBreakdown) <= Len(good)

\* the place of entry i of bd in the order by revenue, ties by place in bd
rankIn(bd, i) ==
  Cardinality({j \in 1..Len(bd) :
                 \/ bd[j].cents.v > bd[i].cents.v
                 \/ (bd[j].cents.v = bd[i].cents.v /\ j < i)})

\* the first line item sold under name
firstSold(sold, name) ==
  CHOOSE i \in 1..Len(sold) : sold[i].name = name /\ \A j \in 1..(i - 1) : sold[j].name # name

\* C19: the breakdown lists each item name once, in the order of first
\* encounter, with its accumulated revenue; the displayed lines are at most
\* 5, the entries of highest revenue in descending order, equal revenues in
\* the order of first encounter.
C19_TopFive ==
  results.painted =>
    \A k \in 1..Len(results.rows) :
      LET r == results.rows[k]
          bd == r.cardBreakdown
          sold == soldUnder(r.id, orders)
      IN  /\ {bd[i].name : i \in 1..Len(bd)} = {sold[i].name : i \in 1..Len(sold)}
          /\ \A i, j \in 1..Len(bd) :
               i < j => firstSold(sold, bd[i].name) < firstSold(sold, bd[j].name)
          /\ \A i \in 1..Len(bd) :
               LET Named(item) == item.name = bd[i].name IN
               bd[i].cents = Num(sumOver(SelectSeq(sold, Named), revenueTimesQty))
          /\ Len(r.top) = Min(Len(bd), 5)
          /\ \A i \in 1..Len(bd) : rankIn(bd, i) < 5 => r.top[rankIn(bd, i) + 1] = bd[i]

\* six cards sold at 1, 2, 2, 1, 1, 1 cents: B, C, A, D, E are shown, F is not
C19_Witness ==
  /\ results.painted /\ markedExpansions = {10}
  /\ Len(results.rows[1].cardBreakdown) = 6
  /\ [i \in 1..5 |-> results.rows[1].top[i].name]
       = <<"Card B", "Card C", "Card A", "Card D", "Card E">>
  /\ results.rows[1].top[3].cents = results.rows[1].top[5].cents

\* ---- filter mode and navigation ----------------------------------------
\* the chars that filter mode appends
FilterChars == Bytes \ (BelowSpace \cup {DEL})

\* the empty text and the texts of one char
FilterTexts == {<<>>} \cup {<<c>> : c \in FilterChars}

filteredListOf(u) ==
  IF u.state = "game-select" THEN filteredGamesOf(u) ELSE filteredExpsOf(u)

RECURSIVE typeText(_, _)
typeText(u, text) ==
  IF text = <<>> THEN u
  ELSE typeText(handleInput(u, <<Head(text)>>).ui, Tail(text))

\* '/', the chars of text, Enter
applyFilter(u, text) ==
  handleInput(typeText(handleInput(u, <<"/">>).ui, text), <<CR>>).ui

\* C21: on a list screen outside filter mode, applying a filter text and
\* then applying the same text again gives the same filtered list and the
\* same cursor as applying it once.
C21_FilterIdempotent ==
  (onListScreen /\ ~filterMode) =>
    \A text \in FilterTexts :
      LET once == applyFilter(UI, text)
          twice == applyFilter(once, text)
      IN  /\ filteredListOf(twice) = filteredListOf(once)
          /\ twice.cursor = once.cursor
          /\ twice.filterText = text

\* the filter "A" is applied on the expansions of game 1 and keeps two of
\* three; applying it again changes nothing
C21_Witness ==
  /\ state = "expansion-select" /\ selectedGameId = 1 /\ ~filterMode
  /\ filterText = <<"A">> /\ Len(filteredExpsOf(UI)) = 2
  /\ applyFilter(UI, filterText) = UI

\* C22: in filter mode a char is appended to filterText and Backspace drops
\* its last char (none when it is empty); both leave cursor = 0 and
\* scrollOffset = 0 and change neither the screen nor the marks.
C22_FilterEditing ==
  filterMode =>
    /\ onListScreen
    /\ \A c \in FilterChars :
         handleInput(UI, <<c>>) =
           Returns([UI EXCEPT !.filterText = Append(filterText, c),
                              !.cursor = 0, !.scrollOffset = 0])
    /\ \A k \in {DEL, BS} :
         handleInput(UI, <<k>>) =
           Returns([UI EXCEPT !.filterText = IF filterText = <<>> THEN <<>>
                                              ELSE SubSeq(filterText, 1, Len(filterText) - 1),
                              !.cursor = 0, !.scrollOffset = 0])

\* 'q' was typed into the filter of the expansions with something marked
C22_Witness ==
  /\ filterMode /\ state = "expansion-select" /\ filterText = <<"q">>
  /\ markedExpansions # {} /\ cursor = 0 /\ scrollOffset = 0

\* C23: in filter mode Enter and Escape set filterMode = false and nothing
\* else: filterText, screen, selected game and marks stay, no game is
\* selected and no aggregation starts.
C23_FilterExit ==
  filterMode =>
    \A key \in {<<CR>>, <<ESC>>} :
      handleInput(UI, key) = Returns([UI EXCEPT !.filterMode = FALSE])

\* a filter text is still in force outside filter mode, with marks in place
C23_Witness ==
  /\ ~filterMode /\ state = "expansion-select" /\ filterText = <<"k">>
  /\ markedExpansions = {10} /\ Len(filteredExpsOf(UI)) = 1

\* C24: outside filter mode ArrowUp and 'k' give cursor = max(0, cursor - 1),
\* ArrowDown and 'j' give cursor = min(length - 1, cursor + 1) for the
\* filtered list on screen: one row at a time, no wrap-around.
C24_CursorMoves ==
  (onListScreen /\ ~filterMode) =>
    /\ \A key \in {ArrowUp, <<"k">>} :
         LET c == handleInput(UI, key).ui.cursor IN
         c = Max(0, cursor - 1) /\ c >= 0
    /\ \A key \in {ArrowDown, <<"j">>} :
         LET c == handleInput(UI, key).ui.cursor IN
         c = Min(Len(filteredList) - 1, cursor + 1) /\ c <= Len(filteredList) - 1

\* the cursor is on the last of the three expansions of game 1
C24_Witness ==
  /\ state = "expansion-select" /\ selectedGameId = 1 /\ ~filterMode
  /\ Len(filteredExpsOf(UI)) = 3 /\ cursor = 2
  /\ handleInput(UI, ArrowDown).ui.cursor = 2

\* keys without a meaning on a list screen outside filter mode
UnrecognizedKeys == {ArrowRight, <<"[">>, <<"A">>, <<"B">>, <<DEL>>, <<BS>>}

nothingHighlighted == cursor + 1 \notin 1..Len(filteredList)

\* C25: on a list screen outside filter mode, an unrecognized key, ArrowUp at
\* cursor 0, ArrowDown on the last row or on an empty list, Enter on
\* GameSelect and Space on ExpansionSelect with nothing highlighted leave the
\* UI state as it was.
C25_IgnoredKeys ==
  (onListScreen /\ ~filterMode) =>
    /\ \A key \in UnrecognizedKeys : handleInput(UI, key) = Returns(UI)
    /\ cursor = 0 => \A key \in {ArrowUp, <<"k">>} : handleInput(UI, key) = Returns(UI)
    /\ (cursor = Len(filteredList) - 1 \/ Len(filteredList) = 0) =>
         \A key \in {ArrowDown, <<"j">>} : handleInput(UI, key) = Returns(UI)
    /\ (nothingHighlighted /\ state = "game-select") =>
         handleInput(UI, <<CR>>) = Returns(UI)
    /\ (nothingHighlighted /\ state = "expansion-select") =>
         handleInput(UI, <<" ">>) = Returns(UI)

\* ---- the escape decoder: sequences and timers ---------------------------
\* C26: when ESC and '[' arrived before the timer fired and the third byte
\* completes no arrow sequence, the three bytes are dropped: the buffer is
\* empty again and no key reaches handleInput, so nothing of the UI changes
\* and the process goes on, on every screen.
C26_UnrecognizedDiscarded ==
  [][(/\ win.open /\ win.bytes = <<ESC, "[">> /\ escapeBuffer = <<ESC, "[">>
      /\ escapeBuffer' = <<>> /\ win' = NoWin) =>
       (UNCHANGED uiVars /\ ~exited' /\ pendingResults' = pendingResults)]_vars

\* C27: once ESC [ A has been handed over as ArrowUp, the timer of its ESC
\* byte is dead: if a new ESC byte arrives and that timer then fires, nothing
\* happens, and the new ESC byte is still waiting in the buffer.
C27_StaleTimerHarmless ==
  (/\ win.open /\ win.bytes = ArrowUp /\ win.events = <<ArrowUp>>
   /\ timers = 1 /\ escapeBuffer = <<>> /\ ~exited) =>
     LET m1 == onData(M, <<ESC>>, TRUE)
         m2 == onTimeout(m1)
     IN  /\ m2.ui = m1.ui
         /\ m2.escapeBuffer = <<ESC>>
         /\ ~m2.exited

\* ---- start of the script -------------------------------------------------
\* C28: when the categories or the expansions could not be obtained, the
\* process has ended with a non-zero status before the main loop: raw mode
\* was never set, the cursor never hidden, no screen rendered.
C28_NoListsNoUI ==
  (boot.categories = "unobtained" \/ boot.expansions = "unobtained") =>
    /\ exited /\ boot.exitCode > 0
    /\ boot.phase = "failed"
    /\ ~rawMode /\ ~cursorHidden

\* ---- get-or-fetch --------------------------------------------------------
\* what readJsonIfFresh gives for the file f of age `age`, read in one piece
cachedList(f, age) ==
  IF f.kind = "list" /\ age * Tick <= ORDERS_CACHE_TTL_MS THEN f.v ELSE NoList

\* process c goes from before the read to after it, nothing written between
readsCache(c) ==
  /\ cache.proc[c].pc \in {"start", "statted"}
  /\ cache'.proc[c].pc \in {"done", "fetching"}

\* a read returns the cached list when there is one no older than the TTL,
\* and fetches otherwise
readIsGetOrFetch(c) ==
  readsCache(c) =>
    IF cachedList(cache.file, cache.age) # NoList
    THEN /\ cache'.proc[c].pc = "done"
         /\ cache'.proc[c].got = cachedList(cache.file, cache.age)
         /\ cache'.proc[c].via = "cache"
    ELSE cache'.proc[c].pc = "fetching"

otherWriter(c) ==
  \E d \in Processes \ {c} : cache.proc[d].pc \in {"writing", "done"} /\ cache.proc[d].via = "fetch"

\* what was fetched is persisted, unless another process wrote the file too
fetchIsPersisted(c) ==
  (cache.proc[c].pc = "writing" /\ cache'.proc[c].pc = "done") =>
    \/ cache'.file = ListFile(cache.proc[c].got) /\ cache'.age = 0
    \/ otherWriter(c) /\ cache'.file = MixedFile

\* a process that is done holds a complete list, persisted once or fetched
holdsCompleteList(k, c) ==
  k.proc[c].pc = "done" =>
    /\ k.proc[c].got \in 1..k.api
    /\ k.proc[c].via = "cache" => k.proc[c].got \in k.persisted
    /\ k.proc[c].via \in {"cache", "fetch"}

\* C29: a read returns the cached list when a parseable file no older than
\* its TTL exists, and otherwise fetches and persists what it fetched; with
\* two processes on one cache directory a race costs a second fetch and an
\* overwrite at most, and every process that is done holds a complete list
\* that was persisted or fetched.
C29_GetOrFetch ==
  [][\A c \in Processes :
       /\ readIsGetOrFetch(c)
       /\ fetchIsPersisted(c)
       /\ holdsCompleteList(cache', c)]_vars

\* ---- paginated fetch loops -----------------------------------------------
\* the ranges are the records first..last, each once, in order
RECURSIVE coversFrom(_, _, _)
coversFrom(ranges, first, last) ==
  IF ranges = <<>> THEN first = last + 1
  ELSE /\ Head(ranges)[1] = first
       /\ Head(ranges)[2] >= first
       /\ coversFrom(Tail(ranges), Head(ranges)[2] + 1, last)

\* C30: every loop requests the pages 1, 2, 3, ... in order, and when it has
\* ended against a server serving pages of PAGE_LIMIT records, the loop has
\* retrieved every record of the collection exactly once.
C30_EveryRecordOnce ==
  /\ pager.requested = [n \in 1..Len(pager.requested) |-> n]
  /\ (pager.loop \in Loops /\ ~pager.hasMore) =>
       coversFrom(pager.ranges, 1, pager.size)

\* ---- filter mode takes every key ----------------------------------------
\* C35: in filter mode a printable char, among them 'q', '/', space, 'j' and
\* 'k', is appended to filterText and does nothing else: the process goes
\* on, filter mode, screen, game and marks stay as they are and the cursor
\* does not move off the first row; an arrow sequence or another control
\* byte changes nothing.
C35_FilterModeTakesKeys ==
  filterMode =>
    /\ \A c \in FilterChars :
         LET r == handleInput(UI, <<c>>) IN
         /\ r.call = "none"
         /\ r.ui.filterMode /\ r.ui.filterText = filterText \o <<c>>
         /\ r.ui.state = state /\ r.ui.selectedGameId = selectedGameId
         /\ r.ui.markedExpansions = markedExpansions
         /\ r.ui.cursor = 0
    /\ \A key \in {ArrowUp, ArrowDown, ArrowRight, <<TAB>>} :
         handleInput(UI, key) = Returns(UI)

\* '/' was typed into the filter of the games: it is the filter text, and
\* the filter was not started again
C35_Witness ==
  /\ filterMode /\ state = "game-select" /\ filterText = <<"/">>
  /\ {"q", "/", " ", "j", "k"} \subseteq FilterChars

\* ---- the decoder after the timeout --------------------------------------
\* C34: when every timer set by an ESC byte has fired, the escape buffer is
\* empty: the decoder is idle again, and the next byte is decoded as a key
\* of its own.
C34_DecoderReturnsToIdle ==
  (~exited /\ timers = 0) => escapeBuffer = <<>>

\* ---- key events while the orders are awaited ----------------------------
\* C36: the aggregation painted for an Enter on ExpansionSelect is over the
\* markedExpansions as they were at that Enter.
C36_AggregatesMarksOfEnter ==
  renders.paint.painted => renders.paint.aggregated = renders.paint.asOfEnter

\* C37: results are painted only over the Results screen, and at most one
\* renderResults call is suspended at any time.
C37_PaintOnlyOnResults ==
  /\ renders.paint.painted => renders.paint.over = "results"
  /\ Len(renders.calls) <= 1

\* ---- one line item, one expansion ---------------------------------------
\* the rows of the results whose totals line item `item` was added to
rowsCounting(item) ==
  {k \in 1..Len(results.rows) :
     itemMatches(item, toLowerCase(expansionById(results.rows[k].id).name))}

\* C38: in one aggregation pass every line item of the log is added to the
\* totals of at most one marked expansion, so that the grand total quantity
\* is at most the sum of the quantities of the line items.
C38_ItemCountedOnce ==
  results.painted =>
    LET items == lineItems(orders) IN
    /\ \A i \in 1..Len(items) : Cardinality(rowsCounting(items[i])) <= 1
    /\ (\A i \in 1..Len(items) : isNumber(items[i].quantity)) =>
         results.grandTotalQty.v <= sumOver(items, qtyOf)

\* ---- the breakdown adds up ----------------------------------------------
entryQty(e) == e.qty.v
entryCents(e) == e.cents.v

\* C39: for every marked expansion the qty of all entries of its breakdown
\* by item name, before the cut to five, add up to its totalQty and their
\* revenue to its totalCents (and the total is not a number exactly when an
\* entry is not).
C39_BreakdownAddsUp ==
  results.painted =>
    \A k \in 1..Len(results.rows) :
      LET r == results.rows[k]
          bd == r.cardBreakdown
      IN  /\ IF \A i \in 1..Len(bd) : isNumber(bd[i].qty)
             THEN r.totalQty = Num(sumOver(bd, entryQty))
             ELSE ~isNumber(r.totalQty)
          /\ IF \A i \in 1..Len(bd) : isNumber(bd[i].cents)
             THEN r.totalCents = Num(sumOver(bd, entryCents))
             ELSE ~isNumber(r.totalCents)

\* "Card A" was sold in two orders and is one entry of 4 cards and 20 cents
C39_Witness ==
  /\ results.painted /\ Len(orders) = 2
  /\ Len(results.rows[1].cardBreakdown) = 1
  /\ results.rows[1].cardBreakdown[1].qty = Num(4)
  /\ results.rows[1].totalQty = Num(4) /\ results.rows[1].totalCents = Num(20)

\* ---- what is written to the orders cache --------------------------------
\* C40: the orders cache file never holds the list of a run that was cut
\* short: every list persisted is the whole list the API held.
C40_NoPartialListPersisted ==
  /\ \A v \in cache.persisted : v \in 1..cache.api
  /\ cache.file.kind = "list" => cache.file.v \in 1..cache.api

\* ---- script.js ------------------------------------------------------------
\* a decimal number: an optional sign and digits, nothing else
isNumericText(s) ==
  LET ds == IF s # <<>> /\ Head(s) = "-" THEN Tail(s) ELSE s IN
  ds # <<>> /\ \A i \in 1..Len(ds) : isDigit(ds[i])

\* the product's price is above, below or at the value
priceIs(product, comparison, n) ==
  /\ isNumber(product.price_cents)
  /\ \/ comparison = "greater" /\ product.price_cents.v > n
     \/ comparison = "less" /\ product.price_cents.v < n
     \/ comparison = "equal" /\ product.price_cents.v = n

quantityListed(product) ==
  IF nullish(product.quantity) THEN 1 ELSE product.quantity.v

\* C31: a run with another operator or a value that is no number is rejected
\* with a non-zero exit before any request; any other run that ends reports
\* the sum of the quantities, a missing one counting 1, of the products
\* whose price_cents compares to the value as the operator says.
C31_PriceFilter ==
  LET f == priceFilter
      valid == f.comparison \in {"greater", "less", "equal"} /\ isNumericText(f.valueStr)
  IN  /\ f.phase = "rejected" => (f.exitCode > 0 /\ f.requested = 0)
      /\ f.phase \in {"rejected", "fetching", "done", "failed"} =>
           (f.phase = "rejected" <=> ~valid)
      /\ f.phase = "done" =>
           LET matching == SelectSeq(f.inventory,
                             LAMBDA p : priceIs(p, f.comparison, parseInt(f.valueStr).v))
           IN  f.totalCount = sumOver(matching, quantityListed)

\* ---- the bulk listing page ----------------------------------------------
\* C32: workingItems never holds two rows of the same blueprint id.
C32_NoDuplicateRows ==
  \A i, j \in 1..Len(bulk.workingItems) :
    bulk.workingItems[i].id = bulk.workingItems[j].id => i = j

\* blueprint 1 was added while the row of blueprint 2, of the same
\* expansion, was in the list, and the row of 2 was not added again
C32_Witness ==
  /\ Len(bulk.workingItems) = 3
  /\ bulk.workingItems[1].id = 2 /\ bulk.workingItems[2].id = 1
  /\ bulk.workingItems[3].id = 3

\* ---- cardsSoldOfSet.js ----------------------------------------------------
\* the orders of the listing up to, and not including, the first one older
\* than fromDate
beforeFirstOlder(listing, fromDate) ==
  {i \in 1..Len(listing) :
     \A j \in 1..i : listing[j].date = NoDate \/ listing[j].date >= fromDate}

countOf(pushed, expansionId) == totalsOf(pushed, expansionId).qty

\* C33: every order that is counted in the set list and in the totals of the
\* chosen set has a date on or after from_date and stands before the first
\* order older than from_date; the list and the totals count those orders
\* only, and no page after the one of that first older order is asked for.
C33_CountsSinceFromDate ==
  dateScan.phase \in {"scanning", "listed", "summed", "exited"} =>
    /\ \A k \in 1..Len(dateScan.orders) :
         /\ dateScan.orders[k].date # NoDate
         /\ dateScan.orders[k].date >= dateScan.fromDate
         /\ dateScan.orders[k].place \in
              beforeFirstOlder(dateScan.listing, dateScan.fromDate)
         /\ dateScan.listing[dateScan.orders[k].place].date = dateScan.orders[k].date
    /\ \A k \in 1..Len(dateScan.soldSets) :
         dateScan.soldSets[k].count
           = countOf(dateScan.orders, dateScan.soldSets[k].id)
    /\ dateScan.phase = "summed" =>
         dateScan.totalSoldQty
           = countOf(dateScan.orders, dateScan.soldSets[dateScan.chosen].id)
    /\ \A i \in 1..Len(dateScan.listing) :
         (dateScan.listing[i].date # NoDate
            /\ dateScan.listing[i].date < dateScan.fromDate
            /\ dateScan.fromDate # NoDate)
           => dateScan.page <= ((i - 1) \div ScanLimit) + 2

\* the scan met an older order on the first page with a newer one before
\* it, stopped there with a second page left, and the totals were made
C33_Witness ==
  /\ dateScan.phase = "summed"
  /\ Len(dateScan.listing) = 3
  /\ dateScan.listing[1].date >= dateScan.fromDate
  /\ dateScan.listing[2].date # NoDate
  /\ dateScan.listing[2].date < dateScan.fromDate
  /\ dateScan.page = 2
  /\ Len(dateScan.orders) = 1
====
